---- MODULE Spec2Model ----
(***************************************************************************)
(* Prime-editing-tools: the quantification ingestion                       *)
(* (workflow_tools/quantification_analysis.py), the heatmaps               *)
(* (visualisation_tools/heatmap.py) and the run visualizer                 *)
(* (visualisation_tools/run_2d_visualizer.py).                             *)
(*                                                                         *)
(* Text is a sequence of one-character strings, so that the regular        *)
(* expressions of extract_batch_info, int() and str.lower() are computed   *)
(* character by character.  An optional value (Python's None or a value)   *)
(* is None == <<>> or Some(v) == <<v>>.                                    *)
(***************************************************************************)
EXTENDS Integers, Sequences, FiniteSets, TLC

VARIABLES
    fields,              \* the fields a batch name was written from (parser runs)
    batch_name,          \* the argument of extract_batch_info (parser runs)
    parsed,              \* the outcome of that call (parser runs)
    df,                  \* process_data: the rows read from the TSV file
    idx,                 \* process_data: position in unique_batches
    batches,             \* process_data: dict batches, in insertion order
    missing_pe_batches,  \* process_data: dict missing_pe_batches, in insertion order
    response,            \* process_data: the answer to the strategy prompt
    ask_idx,             \* process_data: position in the per-batch prompt loop
    prompts,             \* every input() call made so far, in order
    warnings,            \* every warning printed so far, in order
    pc,                  \* position of the run
    conn,                \* main: the tables of the SQLite database
    drug_cache,          \* get_or_create_drug.drug_cache
    selected_experiment_id, \* main: the experiment chosen by the operator
    run_id,              \* main: the id insert_run returned
    batch_idx,           \* main: position in batches.items()
    data_points_added,   \* main: the counter printed at the end
    experiment_id,       \* heatmap: the experiment chosen by the operator
    selected_runs,       \* heatmap: the list select_runs returned
    args_normalize,      \* heatmap: the --normalize flag
    normalize,           \* get_experiment_data: its parameter, reset at line 172
    prime_editors,       \* get_experiment_data: the distinct prime editors
    drugs,               \* get_experiment_data: dict drugs, as rows in order
    runs,                \* get_experiment_data: the keys of dict runs, in order
    entries,             \* get_experiment_data: dict entries, id -> (pbs, rtt)
    data_points,         \* get_experiment_data: the rows fetched, 8 columns each
    common_pbs_rtt,      \* get_experiment_data: the candidate reference points
    run_normalization_factors, \* get_experiment_data: run id -> reference mean
    global_factor,       \* get_experiment_data: mean of the run factors
    heatmap_data,        \* get_experiment_data: key -> position -> list of values
    averaged_data,       \* get_experiment_data: key -> position -> mean
    matrices,            \* create_heatmaps: key -> axes and matrix
    experiments,         \* ExperimentVisualizer.experiments: rows (id, name)
    selected_experiment, \* ExperimentVisualizer.selected_experiment
    self_runs,           \* ExperimentVisualizer.runs: rows (id, run_name)
    selected_run,        \* ExperimentVisualizer.selected_run
    available_pbs_rtt,   \* ExperimentVisualizer.available_pbs_rtt: rows (pbs, rtt)
    grid,                \* min_pbs .. max_rtt, num_rows, num_cols, cell_size, margin
    selected_cells,      \* ExperimentVisualizer.selected_cells: set of (row, col)
    dragging,            \* ExperimentVisualizer.dragging
    last_cell,           \* ExperimentVisualizer.last_cell
    status_var           \* ExperimentVisualizer.status_var

ingestvars == <<fields, batch_name, parsed, df, idx, batches,
                missing_pe_batches, response, ask_idx, prompts>>
mainvars == <<conn, drug_cache, selected_experiment_id, run_id, batch_idx,
              data_points_added>>
heatvars == <<experiment_id, selected_runs, args_normalize, normalize,
              prime_editors, drugs, runs, entries, data_points, common_pbs_rtt,
              run_normalization_factors, global_factor, heatmap_data,
              averaged_data, matrices>>
vizvars == <<experiments, selected_experiment, self_runs, selected_run,
             available_pbs_rtt, grid, selected_cells, dragging, last_cell,
             status_var>>
vars == <<ingestvars, warnings, pc, mainvars, heatvars, vizvars>>

None == <<>>
Some(v) == <<v>>
Range(seq) == {seq[i] : i \in 1..Len(seq)}

(***************************************************************************)
(* Characters and character classes of Python's re module.                 *)
(***************************************************************************)
LowerChars == <<"a","b","c","d","e","f","g","h","i","j","k","l","m",
                "n","o","p","q","r","s","t","u","v","w","x","y","z">>
UpperChars == <<"A","B","C","D","E","F","G","H","I","J","K","L","M",
                "N","O","P","Q","R","S","T","U","V","W","X","Y","Z">>
Lower == {LowerChars[i] : i \in 1..26}
Upper == {UpperChars[i] : i \in 1..26}
DigitChars == <<"0","1","2","3","4","5","6","7","8","9">>
Digit == {DigitChars[i] : i \in 1..10}
Letter == Lower \cup Upper
Word == Letter \cup Digit \cup {"_"}
LetterOrUnderscore == Letter \cup {"_"}
RepInitial == {"R", "/", "r"}

(***************************************************************************)
(* A regular expression is a sequence of elements: one character of a      *)
(* class, a greedy one-or-more run of a class, the opening or closing of   *)
(* a capture group, or the end anchor.                                     *)
(***************************************************************************)
One(S) == <<[kind |-> "one", set |-> S]>>
Plus(S) == <<[kind |-> "plus", set |-> S]>>
Open == <<[kind |-> "open", set |-> {}]>>
Close == <<[kind |-> "close", set |-> {}]>>
End == <<[kind |-> "end", set |-> {}]>>
Lit(c) == One({c})

NoMatch == [ok |-> FALSE, caps |-> <<>>]

\* Number of consecutive characters of class S in s from position pos.
RECURSIVE RunLength(_, _, _)
RunLength(s, pos, S) ==
    IF pos <= Len(s) /\ s[pos] \in S THEN 1 + RunLength(s, pos + 1, S) ELSE 0

\* '$': at the end of the string, or just before a newline that ends it.
AtEnd(s, pos) ==
    \/ pos = Len(s) + 1
    \/ pos = Len(s) /\ s[pos] = "\n"

\* The backtracking matcher: the first match in the order Python's engine
\* tries them (a greedy run gives back one character at a time).
RECURSIVE MatchFrom(_, _, _, _, _)
RECURSIVE TryRun(_, _, _, _, _, _)
MatchFrom(re, k, s, pos, caps) ==
    IF k > Len(re) THEN [ok |-> TRUE, caps |-> caps]
    ELSE LET e == re[k] IN
         CASE e.kind = "open" ->
                  MatchFrom(re, k + 1, s, pos, Append(caps, <<pos, pos - 1>>))
           [] e.kind = "close" ->
                  MatchFrom(re, k + 1, s, pos,
                            [caps EXCEPT ![Len(caps)] = <<@[1], pos - 1>>])
           [] e.kind = "end" ->
                  IF AtEnd(s, pos) THEN MatchFrom(re, k + 1, s, pos, caps)
                  ELSE NoMatch
           [] e.kind = "one" ->
                  IF pos <= Len(s) /\ s[pos] \in e.set
                  THEN MatchFrom(re, k + 1, s, pos + 1, caps)
                  ELSE NoMatch
           [] e.kind = "plus" ->
                  TryRun(re, k, s, pos, caps, RunLength(s, pos, e.set))
TryRun(re, k, s, pos, caps, n) ==
    IF n < 1 THEN NoMatch
    ELSE LET r == MatchFrom(re, k + 1, s, pos + n, caps) IN
         IF r.ok THEN r ELSE TryRun(re, k, s, pos, caps, n - 1)

\* re.match(pattern, string): anchored at the start, not at the end.
match(pattern, string) ==
    LET r == MatchFrom(pattern, 1, string, 1, <<>>) IN
    [ok |-> r.ok, caps |-> r.caps, string |-> string]

\* m.group(i)
group(m, i) == SubSeq(m.string, m.caps[i][1], m.caps[i][2])

(***************************************************************************)
(* int(text) for the texts a capture group can hold: a non-empty run of    *)
(* decimal digits converts, anything else raises ValueError.               *)
(***************************************************************************)
IsIntLiteral(s) == Len(s) >= 1 /\ \A i \in 1..Len(s) : s[i] \in Digit
DigitValue(c) == CHOOSE d \in 0..9 : DigitChars[d + 1] = c
RECURSIVE int(_)
int(s) ==
    IF Len(s) = 0 THEN 0
    ELSE 10 * int(SubSeq(s, 1, Len(s) - 1)) + DigitValue(s[Len(s)])

(***************************************************************************)
(* The six patterns of extract_batch_info.                                 *)
(***************************************************************************)
RepSuffix == Lit("_") \o One(RepInitial) \o Lit("e") \o Lit("p")
             \o Open \o Plus(Digit) \o Close
PEGroup == Open \o Lit("P") \o Lit("E") \o Plus(Word) \o Close
Num == Open \o Plus(Digit) \o Close

pattern1 == Plus(Letter) \o PEGroup \o Lit("_") \o Lit("P") \o Num
            \o Lit("_") \o Lit("R") \o Num \o RepSuffix
pattern2 == Plus(Letter) \o PEGroup \o Lit("_") \o Lit("R") \o Num
            \o Lit("_") \o Lit("P") \o Num \o RepSuffix
pattern3 == Plus(Letter) \o Lit("_") \o Lit("P") \o Num
            \o Lit("_") \o Lit("R") \o Num \o RepSuffix
pattern4 == Plus(Letter) \o Lit("_") \o Lit("R") \o Num
            \o Lit("_") \o Lit("P") \o Num \o RepSuffix
pattern_drug == Plus(LetterOrUnderscore) \o PEGroup \o Lit("_") \o Lit("P") \o Num
                \o Lit("R") \o Num \o Lit("_")
                \o Open \o Plus(Letter) \o Close \o End
pattern_drug_rep == Plus(LetterOrUnderscore) \o PEGroup \o Lit("_") \o Lit("P") \o Num
                    \o Lit("R") \o Num \o Lit("_")
                    \o Open \o Plus(Letter) \o Close \o RepSuffix

\* A call returns a tuple or raises.
Return(prime_editor, pbs, rtt, replicate, drug_code) ==
    [raised |-> FALSE,
     value |-> [prime_editor |-> prime_editor, pbs |-> pbs, rtt |-> rtt,
                replicate |-> replicate, drug_code |-> drug_code]]
Raise ==
    [raised |-> TRUE,
     value |-> [prime_editor |-> None, pbs |-> None, rtt |-> None,
                replicate |-> None, drug_code |-> None]]

\* The template whose branch extract_batch_info takes, in the order of its
\* if/elif chain (5 is pattern_drug_rep, 6 is pattern_drug); 0 when none.
Winner(name) ==
    IF match(pattern1, name).ok THEN 1
    ELSE IF match(pattern2, name).ok THEN 2
    ELSE IF match(pattern3, name).ok THEN 3
    ELSE IF match(pattern4, name).ok THEN 4
    ELSE IF match(pattern_drug_rep, name).ok THEN 5
    ELSE IF match(pattern_drug, name).ok THEN 6
    ELSE 0

\* The branches of the if/elif chain, each on its own match object.
Template1(m) ==
    Return(Some(group(m, 1)), Some(int(group(m, 2))), Some(int(group(m, 3))),
           Some(int(group(m, 4))), None)
\* Template 2 read in the order of template 1.
Template2_Unswapped(m) ==
    Return(Some(group(m, 1)), Some(int(group(m, 2))), Some(int(group(m, 3))),
           Some(int(group(m, 4))), None)
Template2(m) ==
    Return(Some(group(m, 1)), Some(int(group(m, 3))), Some(int(group(m, 2))),
           Some(int(group(m, 4))), None)
Template3(m) ==
    Return(None, Some(int(group(m, 1))), Some(int(group(m, 2))),
           Some(int(group(m, 3))), None)
Template4(m) ==
    Return(None, Some(int(group(m, 2))), Some(int(group(m, 1))),
           Some(int(group(m, 3))), None)
\* replicate = int(group(4)) and drug_code = group(5), where group 4 is the
\* [a-zA-Z]+ token and group 5 the digits of the Rep suffix.
TemplateDrugRep(m) ==
    IF IsIntLiteral(group(m, 4))
    THEN Return(Some(group(m, 1)), Some(int(group(m, 2))), Some(int(group(m, 3))),
                Some(int(group(m, 4))), Some(group(m, 5)))
    ELSE Raise
TemplateDrug(m) ==
    Return(Some(group(m, 1)), Some(int(group(m, 2))), Some(int(group(m, 3))),
           Some(1), Some(group(m, 4)))
NoTemplate == Return(None, None, None, None, None)

\* The chain with 'if match3' first and 'elif match1' third.
extract_batch_info_ThreeFirst(name) ==
    LET match1 == match(pattern1, name)
        match2 == match(pattern2, name)
        match3 == match(pattern3, name)
        match4 == match(pattern4, name)
        match_drug_rep == match(pattern_drug_rep, name)
        match_drug == match(pattern_drug, name)
    IN
    IF match3.ok THEN Template3(match3)
    ELSE IF match2.ok THEN Template2(match2)
    ELSE IF match1.ok THEN Template1(match1)
    ELSE IF match4.ok THEN Template4(match4)
    ELSE IF match_drug_rep.ok THEN TemplateDrugRep(match_drug_rep)
    ELSE IF match_drug.ok THEN TemplateDrug(match_drug)
    ELSE NoTemplate

extract_batch_info(name) ==
    LET match1 == match(pattern1, name)
        match2 == match(pattern2, name)
        match3 == match(pattern3, name)
        match4 == match(pattern4, name)
        match_drug_rep == match(pattern_drug_rep, name)
        match_drug == match(pattern_drug, name)
    IN
    IF match1.ok THEN Template1(match1)
    ELSE IF match2.ok THEN Template2(match2)
    ELSE IF match3.ok THEN Template3(match3)
    ELSE IF match4.ok THEN Template4(match4)
    ELSE IF match_drug_rep.ok THEN TemplateDrugRep(match_drug_rep)
    ELSE IF match_drug.ok THEN TemplateDrug(match_drug)
    ELSE NoTemplate

\* str.lower(), character by character.
LowerChar(c) ==
    IF c \in Upper THEN LowerChars[CHOOSE i \in 1..26 : UpperChars[i] = c] ELSE c
lower(s) == [i \in 1..Len(s) |-> LowerChar(s[i])]

(***************************************************************************)
(* Batch names.  A name is written from the fields it carries: a prefix,   *)
(* an optional '_', an optional reagent token, the two coordinates in      *)
(* either order, joined by '_' or written together, an optional treatment  *)
(* code and an optional Rep suffix.                                        *)
(***************************************************************************)
RECURSIVE Decimal(_)
Decimal(n) ==
    IF n < 10 THEN <<DigitChars[n + 1]>>
    ELSE Decimal(n \div 10) \o <<DigitChars[(n % 10) + 1]>>

Prefixes == {<<"X">>, <<"H","E","K">>, <<>>}
Separators == {<<>>, <<"_">>}
Reagents == {None, Some(<<"P","E","2">>), Some(<<"P","E","m","a","x">>)}
Orders == {"PR", "RP"}
CoordinatesA == {5, 12}
CoordinatesB == {10}
Paddings == {<<>>, <<"0">>}
DrugCodes == {None, Some(<<"d","r","u","g","A">>), Some(<<"C","t","r","l">>)}
Replicates == {None, Some(2), Some(13)}
Initials == {"R", "r", "/"}

FieldSets ==
    {f \in [prefix : Prefixes, sep : Separators, reagent : Reagents,
            order : Orders, compact : BOOLEAN, a : CoordinatesA,
            b : CoordinatesB, pad : Paddings, drug : DrugCodes,
            rep : Replicates, initial : Initials] :
        f.rep = None => f.initial = "R"}

Opt(o, before) == IF o = None THEN <<>> ELSE before \o o[1]

BuildName(f) ==
    LET A == <<"P">> \o f.pad \o Decimal(f.a)
        B == <<"R">> \o Decimal(f.b)
        join == IF f.compact THEN <<>> ELSE <<"_">>
        coords == IF f.order = "PR" THEN A \o join \o B ELSE B \o join \o A
    IN  f.prefix \o f.sep \o Opt(f.reagent, <<>>) \o <<"_">> \o coords
        \o Opt(f.drug, <<"_">>)
        \o (IF f.rep = None THEN <<>>
            ELSE <<"_", f.initial, "e", "p">> \o Decimal(f.rep[1]))

(***************************************************************************)
(* The state before any run.                                               *)
(***************************************************************************)
NoFields == [prefix |-> <<>>, sep |-> <<>>, reagent |-> None, order |-> "PR",
             compact |-> FALSE, a |-> 0, b |-> 0, pad |-> <<>>, drug |-> None,
             rep |-> None, initial |-> "R"]
NotCalled == [called |-> FALSE, raised |-> FALSE, value |-> Raise.value]

(***************************************************************************)
(* The SQLite database: its tables as sequences of rows, in rowid order.   *)
(***************************************************************************)
NoDrugId == "00000000-0000-0000-0000-000000000000"
DefaultDrug == [id |-> NoDrugId, name |-> "None"]

\* A database whose tables are empty.
EmptyStore ==
    [connected |-> TRUE, experiments |-> <<>>, experiment_entries |-> <<>>,
     drugs |-> <<>>, runs |-> <<>>, data_points |-> <<>>]

\* 'conn' before sqlite3.connect has returned: no database can be read or
\* written through it.
NotConnected == [EmptyStore EXCEPT !.connected = FALSE]

\* A database with one experiment and its design entry, a design entry of
\* an experiment that is no longer listed, and a drug created by an earlier
\* run.
Screen ==
    [EmptyStore EXCEPT
        !.experiments = <<[id |-> "exp-1", name |-> "screen"]>>,
        !.experiment_entries =
            <<[id |-> "entry-1", experiment_id |-> "exp-1", pbs |-> 5, rtt |-> 10],
              [id |-> "entry-2", experiment_id |-> "exp-2", pbs |-> 12, rtt |-> 10]>>,
        !.drugs = <<DefaultDrug, [id |-> "drug-1", name |-> "Dex"]>>]

Stores == {EmptyStore, Screen}

\* str(uuid.uuid4()): an id no row of the database has.
Uuid(c) ==
    "uuid-" \o ToString(Len(c.drugs) + Len(c.runs) + Len(c.data_points))

\* A float that is not a number, and a name that is not bound yet.
nan == [num |-> 0, den |-> 0]

IdleHeatmap ==
    /\ experiment_id = ""
    /\ selected_runs = <<>>
    /\ args_normalize = FALSE
    /\ normalize = FALSE
    /\ prime_editors = <<>>
    /\ drugs = <<>>
    /\ runs = <<>>
    /\ entries = <<>>
    /\ data_points = <<>>
    /\ common_pbs_rtt = <<>>
    /\ run_normalization_factors = <<>>
    /\ global_factor = nan
    /\ heatmap_data = <<>>
    /\ averaged_data = <<>>
    /\ matrices = <<>>

\* ExperimentVisualizer.__init__, lines 29-36, before load_experiments.
IdleVisualizer ==
    /\ experiments = <<>>
    /\ selected_experiment = None
    /\ self_runs = <<>>
    /\ selected_run = None
    /\ available_pbs_rtt = <<>>
    /\ grid = None
    /\ selected_cells = {}
    /\ dragging = FALSE
    /\ last_cell = None
    /\ status_var = <<"Please select an experiment and run">>

IdleMain ==
    /\ drug_cache = <<>>
    /\ selected_experiment_id = None
    /\ run_id = None
    /\ batch_idx = 0
    /\ data_points_added = 0

IdleIngestion ==
    /\ df = <<>>
    /\ idx = 0
    /\ batches = <<>>
    /\ missing_pe_batches = <<>>
    /\ response = None
    /\ ask_idx = 0
    /\ prompts = <<>>
    /\ warnings = <<>>
    /\ pc = "idle"
    /\ conn = NotConnected
    /\ IdleMain
    /\ IdleHeatmap
    /\ IdleVisualizer

(***************************************************************************)
(* SpecParse: extract_batch_info called once on a batch name.              *)
(***************************************************************************)
InitParse ==
    /\ fields \in FieldSets
    /\ batch_name = BuildName(fields)
    /\ parsed = NotCalled
    /\ IdleIngestion

CallExtract ==
    /\ pc = "idle"
    /\ ~parsed.called
    /\ LET r == extract_batch_info(batch_name) IN
       parsed' = [called |-> TRUE, raised |-> r.raised, value |-> r.value]
    /\ warnings' = IF Winner(batch_name) = 0
                   THEN Append(warnings, <<"Could not parse batch name", batch_name>>)
                   ELSE warnings
    /\ UNCHANGED <<vizvars, heatvars, mainvars, fields, batch_name, df, idx, batches, missing_pe_batches,
                   response, ask_idx, prompts, pc>>

NextParse == CallExtract

SpecParse == InitParse /\ [][NextParse]_vars

(***************************************************************************)
(* The measurement table read by process_data: one row per amplicon        *)
(* category per batch.                                                     *)
(***************************************************************************)
MaxBatches == 2

Row(amplicon, unmodified, modified, discarded) ==
    [Amplicon |-> amplicon, Unmodified |-> unmodified, Modified |-> modified,
     Discarded |-> discarded]

Good == <<Row("Reference", 80, 10, 10), Row("Prime-edited", 5, 3, 2),
          Row("Scaffold-incorporated", 2, 1, 7)>>
Good2 == <<Row("Prime-edited", 0, 1, 0), Row("Scaffold-incorporated", 0, 5, 0),
           Row("Reference", 0, 0, 0)>>
ZeroTotal == <<Row("Reference", 0, 0, 0), Row("Prime-edited", 0, 0, 0),
               Row("Scaffold-incorporated", 0, 0, 0)>>
TwoRows == SubSeq(Good, 1, 2)
FourRows == Good \o <<Row("Reference", 1, 1, 1)>>
NoPrimeEdited == <<Good[1], Good[1], Good[3]>>
TwoPrimeEdited == <<Good[2], Good[2], Good[3]>>
NoScaffold == <<Good[1], Good[2], Good[1]>>
TwoScaffold == <<Good[3], Good[2], Good[3]>>

Name(prefix, sep, reagent, order, compact, a, drug, rep) ==
    BuildName([prefix |-> prefix, sep |-> sep, reagent |-> reagent,
               order |-> order, compact |-> compact, a |-> a, b |-> 10,
               pad |-> <<>>, drug |-> drug, rep |-> rep, initial |-> "R"])
PE2 == <<"P","E","2">>
drugA == <<"d","r","u","g","A">>
Ctrl == <<"C","t","r","l">>
N1 == Name(<<"X">>, <<>>, Some(PE2), "PR", FALSE, 5, None, Some(2))
N2 == Name(<<"X">>, <<>>, Some(PE2), "RP", FALSE, 12, None, Some(2))
N3 == Name(<<"X">>, <<>>, None, "PR", FALSE, 5, None, Some(2))
N4 == Name(<<"X">>, <<>>, None, "RP", FALSE, 12, None, Some(13))
N5 == Name(<<"X">>, <<"_">>, Some(PE2), "PR", TRUE, 5, Some(drugA), Some(2))
N6 == Name(<<"X">>, <<"_">>, Some(PE2), "PR", TRUE, 5, Some(drugA), None)
N6b == Name(<<"Y">>, <<"_">>, Some(PE2), "PR", TRUE, 5, Some(drugA), None)
N6c == Name(<<"X">>, <<"_">>, Some(PE2), "PR", TRUE, 5, Some(Ctrl), None)
N0 == Name(<<"X">>, <<"_">>, Some(PE2), "PR", FALSE, 5, None, Some(2))

\* The rows of one batch in the file.
Block(name, shape) ==
    [i \in 1..Len(shape) |->
        [Batch |-> name, Amplicon |-> shape[i].Amplicon,
         Unmodified |-> shape[i].Unmodified, Modified |-> shape[i].Modified,
         Discarded |-> shape[i].Discarded]]

Blocks ==
    {Block(n, Good) : n \in {N1, N2, N3, N4, N5, N6, N6b, N6c, N0}}
    \cup {Block(N1, Good2), Block(N1, ZeroTotal)}
    \cup {Block(N2, sh) : sh \in {TwoRows, FourRows, NoPrimeEdited, TwoPrimeEdited,
                                  NoScaffold, TwoScaffold}}

RECURSIVE Tables(_)
Tables(n) ==
    IF n = 0 THEN {<<>>}
    ELSE LET T == Tables(n - 1) IN T \cup {t \o b : t \in T, b \in Blocks}

(***************************************************************************)
(* pandas: Series.unique() (order of first appearance), row selection,     *)
(* column sums.                                                            *)
(***************************************************************************)
RECURSIVE Unique(_)
Unique(names) ==
    IF names = <<>> THEN <<>>
    ELSE LET front == Unique(SubSeq(names, 1, Len(names) - 1))
             last == names[Len(names)]
         IN IF \E i \in 1..Len(front) : front[i] = last THEN front
            ELSE Append(front, last)

unique_batches == Unique([i \in 1..Len(df) |-> df[i].Batch])

RowsOfBatch(name) == SelectSeq(df, LAMBDA r : r.Batch = name)
RowsOfAmplicon(rows, amplicon) == SelectSeq(rows, LAMBDA r : r.Amplicon = amplicon)

RECURSIVE SumReads(_)
SumReads(rows) ==
    IF rows = <<>> THEN 0
    ELSE rows[1].Unmodified + rows[1].Modified + rows[1].Discarded
         + SumReads(Tail(rows))

(***************************************************************************)
(* numpy float64 (IEEE 754 binary64, round to nearest, ties to even).      *)
(* A natural number is a sequence of bits, least significant first,        *)
(* without leading zeros; a float is bits * 2^exp with at most 53 bits.    *)
(***************************************************************************)
RECURSIVE BitsOfNat(_)
BitsOfNat(n) == IF n = 0 THEN <<>> ELSE <<n % 2>> \o BitsOfNat(n \div 2)

RECURSIVE TimesSmall(_, _, _)
TimesSmall(x, k, carry) ==
    IF x = <<>> THEN BitsOfNat(carry)
    ELSE LET v == x[1] * k + carry IN <<v % 2>> \o TimesSmall(Tail(x), k, v \div 2)

RECURSIVE PlusBits(_, _, _)
PlusBits(x, y, carry) ==
    IF x = <<>> /\ y = <<>> THEN BitsOfNat(carry)
    ELSE LET a == IF x = <<>> THEN 0 ELSE x[1]
             b == IF y = <<>> THEN 0 ELSE y[1]
             v == a + b + carry
         IN  <<v % 2>> \o PlusBits(IF x = <<>> THEN x ELSE Tail(x),
                                   IF y = <<>> THEN y ELSE Tail(y), v \div 2)

ShiftLeft(x, k) == IF x = <<>> THEN x ELSE [i \in 1..k |-> 0] \o x

\* x <= y for two naturals: the lengths, then the bits from the most
\* significant one down.
RECURSIVE LessEqFrom(_, _, _)
LessEqFrom(x, y, i) ==
    IF i = 0 THEN TRUE
    ELSE IF x[i] # y[i] THEN x[i] < y[i]
    ELSE LessEqFrom(x, y, i - 1)
LessEqBits(x, y) ==
    \/ Len(x) < Len(y)
    \/ Len(x) = Len(y) /\ LessEqFrom(x, y, Len(x))

\* Trailing zero bits moved into the exponent; zero is <<>> * 2^0.
RECURSIVE Canonical(_)
Canonical(f) ==
    IF f.bits = <<>> THEN [bits |-> <<>>, exp |-> 0]
    ELSE IF f.bits[1] = 0 THEN Canonical([bits |-> Tail(f.bits), exp |-> f.exp + 1])
    ELSE f

\* The float64 nearest to x * 2^exp, ties to even.
Round53(x, exp) ==
    IF Len(x) <= 53 THEN Canonical([bits |-> x, exp |-> exp])
    ELSE LET k == Len(x) - 53
             kept == SubSeq(x, k + 1, Len(x))
             sticky == \E i \in 1..(k - 1) : x[i] = 1
             up == x[k] = 1 /\ (sticky \/ kept[1] = 1)
         IN  Canonical([bits |-> IF up THEN PlusBits(kept, <<1>>, 0) ELSE kept,
                        exp |-> exp + k])

\* n quotient bits of r / t for r < 2 * t, least significant first, after a
\* lowest bit that is 1 iff a remainder is left.
RECURSIVE LongDivision(_, _, _)
LongDivision(r, t, n) ==
    IF n = 0 THEN <<IF r > 0 THEN 1 ELSE 0>>
    ELSE IF r >= t THEN Append(LongDivision(2 * (r - t), t, n - 1), 1)
    ELSE Append(LongDivision(2 * r, t, n - 1), 0)

RECURSIVE Doublings(_, _)
Doublings(a, t) == IF a >= t THEN 0 ELSE 1 + Doublings(2 * a, t)

\* 'a / t' on numpy integers 0 <= a <= t, t > 0: both are converted to
\* float64 exactly and the quotient is rounded once.
truediv(a, t) ==
    IF a = 0 THEN [bits |-> <<>>, exp |-> 0]
    ELSE LET s == Doublings(a, t) IN
         \* 54 quotient bits and a last bit that stands for the rest
         Round53(LongDivision(a * (2 ^ s), t, 54), 0 - s - 54)

\* 'x * 100' on a float64.
times100(x) == Round53(TimesSmall(x.bits, 100, 0), x.exp)

\* '* 1000' written for '* 100'.
Percentage_PerMille(count, total_reads) ==
    IF total_reads # 0
    THEN LET x == truediv(count, total_reads)
             f == Round53(TimesSmall(x.bits, 1000, 0), x.exp)
         IN  [kind |-> "finite", num |-> 1000 * count, den |-> total_reads,
              bits |-> f.bits, exp |-> f.exp]
    ELSE IF count = 0
    THEN [kind |-> "nan", num |-> 0, den |-> 0, bits |-> <<>>, exp |-> 0]
    ELSE [kind |-> "inf", num |-> count, den |-> 0, bits |-> <<>>, exp |-> 0]

\* (count / total_reads) * 100 on numpy numbers: the float64 (bits, exp)
\* together with the ratio it approximates (num / den), or nan (0/0) or
\* inf (count/0) with a RuntimeWarning and no exception.
Percentage(count, total_reads) ==
    IF total_reads # 0
    THEN LET f == times100(truediv(count, total_reads)) IN
         [kind |-> "finite", num |-> 100 * count, den |-> total_reads,
          bits |-> f.bits, exp |-> f.exp]
    ELSE IF count = 0
    THEN [kind |-> "nan", num |-> 0, den |-> 0, bits |-> <<>>, exp |-> 0]
    ELSE [kind |-> "inf", num |-> count, den |-> 0, bits |-> <<>>, exp |-> 0]

(***************************************************************************)
(* process_data: one iteration of the loop over unique_batches.            *)
(***************************************************************************)
InLoop == pc = "loop" /\ idx <= Len(unique_batches)
current == unique_batches[idx]
batch_data == RowsOfBatch(current)
prime_edited_row == RowsOfAmplicon(batch_data, "Prime-edited")
scaffold_row == RowsOfAmplicon(batch_data, "Scaffold-incorporated")
total_reads == SumReads(batch_data)
\* 'len(scaffold_row) < 1' written for 'len(scaffold_row) != 1'.
WellFormed_SomeScaffold ==
    Len(batch_data) = 3 /\ Len(prime_edited_row) = 1 /\ Len(scaffold_row) >= 1
WellFormed ==
    Len(batch_data) = 3 /\ Len(prime_edited_row) = 1 /\ Len(scaffold_row) = 1

\* 'drug_code == "ctrl"' written for 'drug_code.lower() == "ctrl"'.
ControlToNone_CaseSensitive(drug_code) ==
    IF drug_code # None /\ drug_code[1] = <<"c","t","r","l">>
    THEN None ELSE drug_code
\* 'if drug_code and drug_code.lower() == "ctrl": drug_code = None'
ControlToNone(drug_code) ==
    IF drug_code # None /\ drug_code[1] # <<>>
       /\ lower(drug_code[1]) = <<"c","t","r","l">>
    THEN None ELSE drug_code

Entry(name, info) ==
    [name |-> name, prime_editor |-> info.prime_editor, pbs |-> info.pbs[1],
     rtt |-> info.rtt[1], replicate |-> info.replicate[1],
     correct_edits |-> Percentage(prime_edited_row[1].Unmodified, total_reads),
     incorrect_edits |-> Percentage(prime_edited_row[1].Modified, total_reads),
     scaffold_incorporated |-> Percentage(scaffold_row[1].Modified, total_reads),
     drug_code |-> ControlToNone(info.drug_code)]

Skip(warning) ==
    /\ warnings' = Append(warnings, <<warning, current>>)
    /\ idx' = idx + 1
    /\ UNCHANGED <<vizvars, heatvars, mainvars, fields, batch_name, parsed, df, batches, missing_pe_batches,
                   response, ask_idx, prompts, pc>>

\* 'break' written for 'continue'.
SkipRowCount_Break ==
    /\ InLoop
    /\ Len(batch_data) # 3
    /\ warnings' = Append(warnings, <<"does not have exactly 3 rows", current>>)
    /\ idx' = Len(unique_batches) + 1
    /\ UNCHANGED <<vizvars, heatvars, mainvars, fields, batch_name, parsed, df, batches, missing_pe_batches,
                   response, ask_idx, prompts, pc>>
SkipRowCount ==
    /\ InLoop
    /\ Len(batch_data) # 3
    /\ Skip("does not have exactly 3 rows")

SkipPrimeEdited ==
    /\ InLoop
    /\ Len(batch_data) = 3
    /\ Len(prime_edited_row) # 1
    /\ Skip("does not have exactly one 'Prime-edited' row")

SkipScaffold ==
    /\ InLoop
    /\ Len(batch_data) = 3
    /\ Len(prime_edited_row) = 1
    /\ Len(scaffold_row) # 1
    /\ Skip("does not have exactly one 'Scaffold-incorporated' row")

\* extract_batch_info raises: the exception leaves process_data.
ParseRaises ==
    /\ InLoop
    /\ WellFormed
    /\ extract_batch_info(current).raised
    /\ pc' = "raised"
    /\ UNCHANGED <<vizvars, heatvars, mainvars, fields, batch_name, parsed, df, idx, batches,
                   missing_pe_batches, response, ask_idx, prompts, warnings>>

\* The parse failure raised instead of skipped.
SkipUnparsed_Fatal ==
    /\ InLoop
    /\ WellFormed
    /\ Winner(current) = 0
    /\ pc' = "raised"
    /\ UNCHANGED <<vizvars, heatvars, mainvars, fields, batch_name, parsed, df, idx, batches,
                   missing_pe_batches, response, ask_idx, prompts, warnings>>
SkipUnparsed ==
    /\ InLoop
    /\ WellFormed
    /\ LET r == extract_batch_info(current) IN
       /\ ~r.raised
       /\ None \in {r.value.pbs, r.value.rtt, r.value.replicate}
       /\ warnings' = warnings
              \o (IF Winner(current) = 0
                  THEN <<<<"Could not parse batch name", current>>>> ELSE <<>>)
              \o <<<<"Could not extract PBS, RTT, or replicate", current>>>>
    /\ idx' = idx + 1
    /\ UNCHANGED <<vizvars, heatvars, mainvars, fields, batch_name, parsed, df, batches, missing_pe_batches,
                   response, ask_idx, prompts, pc>>

\* The strategy prompt issued inside the loop, when the batch is found.
TrackMissing_AskNow ==
    /\ InLoop
    /\ WellFormed
    /\ LET r == extract_batch_info(current) IN
       /\ ~r.raised
       /\ None \notin {r.value.pbs, r.value.rtt, r.value.replicate}
       /\ r.value.prime_editor = None
       /\ missing_pe_batches' = Append(missing_pe_batches, Entry(current, r.value))
    /\ prompts' = Append(prompts, [kind |-> "strategy", batch |-> <<>>,
                                   answer |-> <<>>])
    /\ idx' = idx + 1
    /\ UNCHANGED <<vizvars, heatvars, mainvars, fields, batch_name, parsed, df, batches, response, ask_idx,
                   warnings, pc>>
TrackMissing ==
    /\ InLoop
    /\ WellFormed
    /\ LET r == extract_batch_info(current) IN
       /\ ~r.raised
       /\ None \notin {r.value.pbs, r.value.rtt, r.value.replicate}
       /\ r.value.prime_editor = None
       /\ missing_pe_batches' = Append(missing_pe_batches, Entry(current, r.value))
    /\ idx' = idx + 1
    /\ UNCHANGED <<vizvars, heatvars, mainvars, fields, batch_name, parsed, df, batches, response, ask_idx,
                   prompts, warnings, pc>>

\* The batch stored whether or not its name carried a prime editor.
StoreBatch_Unresolved ==
    /\ InLoop
    /\ WellFormed
    /\ LET r == extract_batch_info(current) IN
       /\ ~r.raised
       /\ None \notin {r.value.pbs, r.value.rtt, r.value.replicate}
       /\ batches' = Append(batches, Entry(current, r.value))
    /\ idx' = idx + 1
    /\ UNCHANGED <<vizvars, heatvars, mainvars, fields, batch_name, parsed, df, missing_pe_batches, response,
                   ask_idx, prompts, warnings, pc>>
\* A batch dropped when one with the same coordinate, prime editor,
\* replicate and drug code is already stored.
StoreBatch_Deduplicated ==
    /\ InLoop
    /\ WellFormed
    /\ LET r == extract_batch_info(current)
           e == Entry(current, r.value)
       IN
       /\ ~r.raised
       /\ None \notin {r.value.pbs, r.value.rtt, r.value.replicate}
       /\ r.value.prime_editor # None
       /\ batches' = IF \E b \in Range(batches) :
                            <<b.pbs, b.rtt, b.prime_editor, b.replicate, b.drug_code>>
                                = <<e.pbs, e.rtt, e.prime_editor, e.replicate, e.drug_code>>
                     THEN batches
                     ELSE Append(batches, e)
    /\ idx' = idx + 1
    /\ UNCHANGED <<vizvars, heatvars, mainvars, fields, batch_name, parsed, df, missing_pe_batches, response,
                   ask_idx, prompts, warnings, pc>>
StoreBatch ==
    /\ InLoop
    /\ WellFormed
    /\ LET r == extract_batch_info(current) IN
       /\ ~r.raised
       /\ None \notin {r.value.pbs, r.value.rtt, r.value.replicate}
       /\ r.value.prime_editor # None
       /\ batches' = Append(batches, Entry(current, r.value))
    /\ idx' = idx + 1
    /\ UNCHANGED <<vizvars, heatvars, mainvars, fields, batch_name, parsed, df, missing_pe_batches, response,
                   ask_idx, prompts, warnings, pc>>

(***************************************************************************)
(* process_data: the batches with a missing prime editor.                  *)
(***************************************************************************)
different == <<"d","i","f","f","e","r","e","n","t">>
Answers == {PE2, different, <<"D","i","f","f","e","r","e","n","t">>, <<>>}

Prompt(kind, name, answer) == [kind |-> kind, batch |-> name, answer |-> answer]

WithPrimeEditor(data, prime_editor) ==
    [data EXCEPT !.prime_editor = Some(prime_editor)]

\* 'for batch_name, data in missing_pe_batches.items():' with one answer.
ResolveAll(missing, answer) ==
    [i \in 1..Len(missing) |-> WithPrimeEditor(missing[i], answer)]

LoopDone == pc = "loop" /\ idx > Len(unique_batches)

\* 'if missing_pe_batches:' is false.
ReturnResolved ==
    /\ LoopDone
    /\ missing_pe_batches = <<>>
    /\ pc' = "returned"
    /\ UNCHANGED <<vizvars, heatvars, mainvars, fields, batch_name, parsed, df, idx, batches,
                   missing_pe_batches, response, ask_idx, prompts, warnings>>

\* 'response == "different"' written for 'response.lower() == "different"'.
AskStrategy_CaseSensitive ==
    /\ LoopDone
    /\ missing_pe_batches # <<>>
    /\ \E answer \in Answers :
        /\ response' = Some(answer)
        /\ prompts' = Append(prompts, Prompt("strategy", <<>>, answer))
        /\ IF answer = different
           THEN /\ pc' = "individual"
                /\ ask_idx' = 1
                /\ UNCHANGED <<batches, missing_pe_batches>>
           ELSE /\ pc' = "returned"
                /\ missing_pe_batches' = ResolveAll(missing_pe_batches, answer)
                /\ batches' = batches \o ResolveAll(missing_pe_batches, answer)
                /\ UNCHANGED ask_idx
    /\ UNCHANGED <<vizvars, heatvars, mainvars, fields, batch_name, parsed, df, idx, warnings>>
\* The one answer written into every batch, resolved or not.
AskStrategy_OverwriteAll ==
    /\ LoopDone
    /\ missing_pe_batches # <<>>
    /\ \E answer \in Answers :
        /\ response' = Some(answer)
        /\ prompts' = Append(prompts, Prompt("strategy", <<>>, answer))
        /\ IF lower(answer) = different
           THEN /\ pc' = "individual"
                /\ ask_idx' = 1
                /\ UNCHANGED <<batches, missing_pe_batches>>
           ELSE /\ pc' = "returned"
                /\ missing_pe_batches' = ResolveAll(missing_pe_batches, answer)
                /\ batches' = ResolveAll(batches \o missing_pe_batches, answer)
                /\ UNCHANGED ask_idx
    /\ UNCHANGED <<vizvars, heatvars, mainvars, fields, batch_name, parsed, df, idx, warnings>>
\* response = input("Enter prime editor name for these batches ...")
AskStrategy ==
    /\ LoopDone
    /\ missing_pe_batches # <<>>
    /\ \E answer \in Answers :
        /\ response' = Some(answer)
        /\ prompts' = Append(prompts, Prompt("strategy", <<>>, answer))
        /\ IF lower(answer) = different
           THEN /\ pc' = "individual"
                /\ ask_idx' = 1
                /\ UNCHANGED <<batches, missing_pe_batches>>
           ELSE /\ pc' = "returned"
                /\ missing_pe_batches' = ResolveAll(missing_pe_batches, answer)
                /\ batches' = batches \o ResolveAll(missing_pe_batches, answer)
                /\ UNCHANGED ask_idx
    /\ UNCHANGED <<vizvars, heatvars, mainvars, fields, batch_name, parsed, df, idx, warnings>>

\* prime_editor = input(f"Enter prime editor name for batch '{batch_name}': ")
AskIndividual ==
    /\ pc = "individual"
    /\ ask_idx <= Len(missing_pe_batches)
    /\ \E answer \in Answers :
        LET data == WithPrimeEditor(missing_pe_batches[ask_idx], answer) IN
        /\ prompts' = Append(prompts, Prompt("batch", data.name, answer))
        /\ missing_pe_batches' = [missing_pe_batches EXCEPT ![ask_idx] = data]
        /\ batches' = Append(batches, data)
    /\ ask_idx' = ask_idx + 1
    /\ pc' = IF ask_idx = Len(missing_pe_batches) THEN "returned" ELSE "individual"
    /\ UNCHANGED <<vizvars, heatvars, mainvars, fields, batch_name, parsed, df, idx, response, warnings>>

(***************************************************************************)
(* main: 'except Exception' around process_data prints the error and       *)
(* returns 1.                                                              *)
(***************************************************************************)
MainCatch ==
    /\ pc = "raised"
    /\ pc' = "exit_1"
    /\ warnings' = Append(warnings, <<"Error processing TSV file", <<>>>>)
    /\ UNCHANGED <<vizvars, heatvars, mainvars, fields, batch_name, parsed, df, idx, batches,
                   missing_pe_batches, response, ask_idx, prompts>>

(***************************************************************************)
(* main: the database is opened once process_data has returned.            *)
(***************************************************************************)
\* setup_database: 'INSERT OR IGNORE' of the default drug.
setup_database(c) ==
    IF \E i \in 1..Len(c.drugs) : c.drugs[i].id = NoDrugId THEN c
    ELSE [c EXCEPT !.drugs = Append(@, DefaultDrug)]

\* The database opened while the per-batch prompts are still going on.
MainConnect_Early ==
    /\ pc \in {"returned", "individual"}
    /\ \E store \in Stores :
          /\ conn' = setup_database(store)
          /\ pc' = "connected"
    /\ UNCHANGED <<vizvars, heatvars, fields, batch_name, parsed, df, idx, batches,
                   missing_pe_batches, response, ask_idx, prompts, warnings,
                   drug_cache, selected_experiment_id, run_id, batch_idx,
                   data_points_added>>
\* sqlite3.connect and setup_database; an exception ends the run.
MainConnect ==
    /\ pc = "returned"
    /\ \/ \E store \in Stores :
              /\ conn' = setup_database(store)
              /\ pc' = "connected"
              /\ UNCHANGED warnings
       \/ /\ pc' = "no_database"
          /\ warnings' = Append(warnings, <<"Error connecting to database", <<>>>>)
          /\ UNCHANGED conn
    /\ UNCHANGED <<vizvars, heatvars, fields, batch_name, parsed, df, idx, batches,
                   missing_pe_batches, response, ask_idx, prompts, drug_cache,
                   selected_experiment_id, run_id, batch_idx, data_points_added>>

\* 'if not experiments:'
NoExperiments ==
    /\ pc = "connected"
    /\ conn.experiments = <<>>
    /\ pc' = "no_experiments"
    /\ warnings' = Append(warnings, <<"No experiments found in the database.", <<>>>>)
    /\ UNCHANGED <<vizvars, heatvars, mainvars, fields, batch_name, parsed, df, idx, batches,
                   missing_pe_batches, response, ask_idx, prompts>>

RunNames == {"run A"}

\* The experiment selection (the loop ends with a number in range), the run
\* name, insert_run and the reset of the drug cache.
CreateRun ==
    /\ pc = "connected"
    /\ conn.experiments # <<>>
    /\ \E selection \in 1..Len(conn.experiments), run_name \in RunNames :
        /\ selected_experiment_id' = Some(conn.experiments[selection].id)
        /\ run_id' = Some(Uuid(conn))
        /\ conn' = [conn EXCEPT !.runs =
                        Append(@, [id |-> Uuid(conn), run_name |-> run_name,
                                   experiment_id |-> conn.experiments[selection].id])]
    /\ drug_cache' = <<>>
    /\ data_points_added' = 0
    /\ batch_idx' = 1
    /\ pc' = "insert"
    /\ UNCHANGED <<vizvars, heatvars, fields, batch_name, parsed, df, idx, batches,
                   missing_pe_batches, response, ask_idx, prompts, warnings>>

InInsertion == pc = "insert" /\ batch_idx <= Len(batches)
item == batches[batch_idx]

\* The ids 'SELECT id FROM experiment_entries WHERE ...' finds; fetchone()
\* gives one of them, or None when there is none.
get_experiment_entry_id(selected, pbs, rtt) ==
    {e.id : e \in {x \in Range(conn.experiment_entries) :
                      x.experiment_id = selected /\ x.pbs = pbs /\ x.rtt = rtt}}

\* 'if not experiment_entry_id: ... continue'
LookupMiss ==
    /\ InInsertion
    /\ get_experiment_entry_id(selected_experiment_id[1], item.pbs, item.rtt) = {}
    /\ warnings' = Append(warnings, <<"No experiment entry found", item.name>>)
    /\ batch_idx' = batch_idx + 1
    /\ UNCHANGED <<vizvars, heatvars, fields, batch_name, parsed, df, idx, batches,
                   missing_pe_batches, response, ask_idx, prompts, pc, conn,
                   drug_cache, selected_experiment_id, run_id, data_points_added>>

DrugNames == {"Rapamycin"}

\* get_or_create_drug without the test of lines 273-274.
get_or_create_drug_NoCache(c, cache, drug_code, selection, drug_name) ==
    IF drug_code = None
    THEN [drug_id |-> NoDrugId, conn |-> c, drug_cache |-> cache, asked |-> FALSE]
    ELSE LET drug_id == IF selection = 0 THEN Uuid(c) ELSE c.drugs[selection].id
             created == [c EXCEPT !.drugs =
                            Append(@, [id |-> drug_id, name |-> drug_name])]
         IN  [drug_id |-> drug_id,
              conn |-> IF selection = 0 THEN created ELSE c,
              drug_cache |-> (drug_code[1] :> drug_id) @@ cache,
              asked |-> TRUE]

\* get_or_create_drug with the operator's answers: the drug id, the
\* database and the cache after the call, and whether the operator was asked.
get_or_create_drug(c, cache, drug_code, selection, drug_name) ==
    IF drug_code = None
    THEN [drug_id |-> NoDrugId, conn |-> c, drug_cache |-> cache, asked |-> FALSE]
    ELSE IF drug_code[1] \in DOMAIN cache
    THEN [drug_id |-> cache[drug_code[1]], conn |-> c, drug_cache |-> cache,
          asked |-> FALSE]
    ELSE LET drug_id == IF selection = 0 THEN Uuid(c) ELSE c.drugs[selection].id
             created == [c EXCEPT !.drugs =
                            Append(@, [id |-> drug_id, name |-> drug_name])]
         IN  [drug_id |-> drug_id,
              conn |-> IF selection = 0 THEN created ELSE c,
              drug_cache |-> (drug_code[1] :> drug_id) @@ cache,
              asked |-> TRUE]

\* sqlite3 binds nan as NULL: the values of a row that violate NOT NULL.
NotNullViolated(row) ==
    \/ row.prime_editor = None
    \/ "nan" \in {row.correct_edits.kind, row.incorrect_edits.kind,
                  row.scaffold_incorporated.kind}

\* get_or_create_drug, then insert_data_point; an IntegrityError is not
\* caught and ends the process.
InsertBatch ==
    /\ InInsertion
    /\ \E experiment_entry_id \in
             get_experiment_entry_id(selected_experiment_id[1], item.pbs, item.rtt),
          selection \in 0..Len(conn.drugs), drug_name \in DrugNames :
        LET g == get_or_create_drug(conn, drug_cache, item.drug_code, selection,
                                    drug_name)
            row == [id |-> Uuid(g.conn),
                    experiment_entry_id |-> experiment_entry_id,
                    correct_edits |-> item.correct_edits,
                    incorrect_edits |-> item.incorrect_edits,
                    scaffold_incorporated |-> item.scaffold_incorporated,
                    prime_editor |-> item.prime_editor,
                    replicate |-> item.replicate,
                    run_id |-> run_id[1],
                    drug_id |-> g.drug_id]
        IN  /\ drug_cache' = g.drug_cache
            /\ prompts' = IF g.asked
                          THEN Append(prompts, Prompt("drug", item.drug_code[1],
                                                      Decimal(selection)))
                          ELSE prompts
            /\ IF NotNullViolated(row)
               THEN /\ conn' = g.conn
                    /\ pc' = "crashed"
                    /\ UNCHANGED <<batch_idx, data_points_added>>
               ELSE /\ conn' = [g.conn EXCEPT !.data_points = Append(@, row)]
                    /\ batch_idx' = batch_idx + 1
                    /\ data_points_added' = data_points_added + 1
                    /\ UNCHANGED pc
    /\ UNCHANGED <<vizvars, heatvars, fields, batch_name, parsed, df, idx, batches,
                   missing_pe_batches, response, ask_idx, warnings,
                   selected_experiment_id, run_id>>

\* The loop over batches.items() has ended: conn.close() and return 0.
MainDone ==
    /\ pc = "insert"
    /\ batch_idx > Len(batches)
    /\ pc' = "done"
    /\ UNCHANGED <<vizvars, heatvars, mainvars, fields, batch_name, parsed, df, idx, batches,
                   missing_pe_batches, response, ask_idx, prompts, warnings>>

(***************************************************************************)
(* Spec: one ingestion run, from the table read by process_data.           *)
(***************************************************************************)
Init ==
    /\ fields = NoFields
    /\ batch_name = <<>>
    /\ parsed = NotCalled
    /\ df \in Tables(MaxBatches)
    /\ idx = 1
    /\ batches = <<>>
    /\ missing_pe_batches = <<>>
    /\ response = None
    /\ ask_idx = 0
    /\ prompts = <<>>
    /\ warnings = <<>>
    /\ pc = "loop"
    /\ conn = NotConnected
    /\ IdleMain
    /\ IdleHeatmap
    /\ IdleVisualizer

Next ==
    \/ SkipRowCount
    \/ SkipPrimeEdited
    \/ SkipScaffold
    \/ ParseRaises
    \/ SkipUnparsed
    \/ TrackMissing
    \/ StoreBatch
    \/ ReturnResolved
    \/ AskStrategy
    \/ AskIndividual
    \/ MainCatch
    \/ MainConnect
    \/ NoExperiments
    \/ CreateRun
    \/ LookupMiss
    \/ InsertBatch
    \/ MainDone

Spec == Init /\ [][Next]_vars

(***************************************************************************)
(* Floats as ratios of integers in lowest terms; nan has denominator 0.    *)
(***************************************************************************)
RECURSIVE GCD(_, _)
GCD(a, b) == IF b = 0 THEN a ELSE GCD(b, a % b)

Rat(n, d) ==
    IF d = 0 THEN nan
    ELSE LET g == GCD(n, d) IN [num |-> n \div g, den |-> d \div g]

\* A REAL column read back as a Python float.
Real(v) == Rat(v.num, v.den)
OnePointZero == Rat(1, 1)
RAdd(a, b) == Rat(a.num * b.den + b.num * a.den, a.den * b.den)
RMul(a, b) == Rat(a.num * b.num, a.den * b.den)
RDiv(a, b) == Rat(a.num * b.den, a.den * b.num)
Positive(a) == a.den # 0 /\ a.num > 0

RECURSIVE RSum(_)
RSum(vals) == IF vals = <<>> THEN Rat(0, 1) ELSE RAdd(vals[1], RSum(Tail(vals)))

\* np.mean of a list.
mean(vals) ==
    IF vals = <<>> THEN nan
    ELSE LET total == RSum(vals) IN Rat(total.num, total.den * Len(vals))

\* sorted(..., reverse=True)
RECURSIVE sorted_Reversed(_)
sorted_Reversed(S) ==
    IF S = {} THEN <<>>
    ELSE LET most == CHOOSE x \in S : \A y \in S : x >= y
         IN  <<most>> \o sorted_Reversed(S \ {most})

\* sorted() of a set of integers.
RECURSIVE sorted(_)
sorted(S) ==
    IF S = {} THEN <<>>
    ELSE LET least == CHOOSE x \in S : \A y \in S : x <= y
         IN  <<least>> \o sorted(S \ {least})

(***************************************************************************)
(* heatmap.py: the database the heatmaps are drawn from.                   *)
(***************************************************************************)
MaxPoints == 3

Value(v) == [kind |-> "finite", num |-> v, den |-> 1]
PEmax == <<"P","E","m","a","x">>

DataPoint(entry, correct, incorrect, scaffold, editor, run, drug) ==
    [id |-> "", experiment_entry_id |-> entry, correct_edits |-> Value(correct),
     incorrect_edits |-> Value(incorrect),
     scaffold_incorporated |-> Value(scaffold), prime_editor |-> Some(editor),
     replicate |-> 1, run_id |-> run, drug_id |-> drug]

\* The data points an ingestion run can have inserted for experiment exp-1.
PointRows ==
    {DataPoint(entry, 10, 2, 1, PE2, run, NoDrugId) :
        entry \in {"entry-1", "entry-2"}, run \in {"run-1", "run-2"}}
    \cup {DataPoint(entry, 12, 4, 0, PE2, run, NoDrugId) :
        entry \in {"entry-1", "entry-2"}, run \in {"run-1", "run-2"}}
    \cup {DataPoint("entry-1", 14, 0, 7, PE2, run, NoDrugId) : run \in {"run-1", "run-2"}}
    \cup {DataPoint(entry, 10, 2, 1, PE2, "run-1", "drug-1") :
        entry \in {"entry-1", "entry-2"}}

RECURSIVE PointSeqs(_)
PointSeqs(n) ==
    IF n = 0 THEN {<<>>}
    ELSE LET T == PointSeqs(n - 1) IN T \cup {Append(t, d) : t \in T, d \in PointRows}

\* Experiment exp-1 with two design entries and two runs, experiment exp-2
\* with one data point of its own, and the data points given.
HeatmapStore(points) ==
    [connected |-> TRUE,
     experiments |-> <<[id |-> "exp-1", name |-> "screen"],
                       [id |-> "exp-2", name |-> "pilot"]>>,
     experiment_entries |->
         <<[id |-> "entry-1", experiment_id |-> "exp-1", pbs |-> 12, rtt |-> 20],
           [id |-> "entry-2", experiment_id |-> "exp-1", pbs |-> 5, rtt |-> 10],
           [id |-> "entry-9", experiment_id |-> "exp-2", pbs |-> 5, rtt |-> 20]>>,
     drugs |-> <<DefaultDrug, [id |-> "drug-1", name |-> "Dex"]>>,
     runs |-> <<[id |-> "run-1", run_name |-> "run A", experiment_id |-> "exp-1"],
                [id |-> "run-2", run_name |-> "run B", experiment_id |-> "exp-1"],
                [id |-> "run-9", run_name |-> "run C", experiment_id |-> "exp-2"]>>,
     data_points |->
         LET rows == <<DataPoint("entry-9", 50, 5, 5, PEmax, "run-9", "drug-1")>>
                     \o points
         IN  [i \in 1..Len(rows) |-> [rows[i] EXCEPT !.id = "dp-" \o ToString(i)]]]

InitHeatmap ==
    /\ fields = NoFields
    /\ batch_name = <<>>
    /\ parsed = NotCalled
    /\ df = <<>>
    /\ idx = 0
    /\ batches = <<>>
    /\ missing_pe_batches = <<>>
    /\ response = None
    /\ ask_idx = 0
    /\ prompts = <<>>
    /\ warnings = <<>>
    /\ IdleMain
    /\ conn \in {HeatmapStore(points) : points \in PointSeqs(MaxPoints)}
    /\ experiment_id = "exp-1"
    /\ selected_runs \in {<<>>, <<"run-1">>}
    /\ args_normalize \in BOOLEAN
    /\ normalize = args_normalize
    /\ prime_editors = <<>>
    /\ drugs = <<>>
    /\ runs = <<>>
    /\ entries = <<>>
    /\ data_points = <<>>
    /\ common_pbs_rtt = <<>>
    /\ run_normalization_factors = <<>>
    /\ global_factor = nan
    /\ heatmap_data = <<>>
    /\ averaged_data = <<>>
    /\ matrices = <<>>
    /\ IdleVisualizer
    /\ pc = "heatmap"

(***************************************************************************)
(* get_experiment_data: the queries (lines 57-151).                        *)
(***************************************************************************)
\* 'FROM data_points d JOIN experiment_entries e ON ... WHERE
\* e.experiment_id = ? [AND d.run_id IN (...)]'
Joined ==
    SelectSeq(conn.data_points,
              LAMBDA d :
                  /\ \E e \in Range(conn.experiment_entries) :
                         e.id = d.experiment_entry_id /\ e.experiment_id = experiment_id
                  /\ selected_runs # <<>> => d.run_id \in Range(selected_runs))

\* The 8 columns of the data point query.
Columns(d) ==
    <<d.experiment_entry_id, Real(d.correct_edits), Real(d.incorrect_edits),
      Real(d.scaffold_incorporated), d.prime_editor, d.replicate, d.run_id,
      d.drug_id>>

Query ==
    /\ pc = "heatmap"
    /\ prime_editors' = Unique([i \in 1..Len(Joined) |-> Joined[i].prime_editor])
    /\ LET used == SelectSeq(conn.drugs,
                             LAMBDA dr : \E d \in Range(Joined) : d.drug_id = dr.id)
       IN  drugs' = IF used = <<>> THEN <<DefaultDrug>> ELSE used
    /\ LET all_runs == SelectSeq(conn.runs, LAMBDA r : r.experiment_id = experiment_id)
           chosen == IF selected_runs # <<>>
                     THEN SelectSeq(all_runs, LAMBDA r : r.id \in Range(selected_runs))
                     ELSE all_runs
       IN  runs' = [i \in 1..Len(chosen) |-> chosen[i].id]
    /\ LET rows == {e \in Range(conn.experiment_entries) :
                        e.experiment_id = experiment_id}
       IN  entries' = [id \in {e.id : e \in rows} |->
                          LET e == CHOOSE x \in rows : x.id = id IN <<e.pbs, e.rtt>>]
    /\ data_points' = [i \in 1..Len(Joined) |-> Columns(Joined[i])]
    /\ pc' = "queried"
    /\ UNCHANGED <<vizvars, ingestvars, warnings, mainvars, experiment_id, selected_runs,
                   args_normalize, normalize, common_pbs_rtt,
                   run_normalization_factors, global_factor, heatmap_data,
                   averaged_data, matrices>>

(***************************************************************************)
(* get_experiment_data: normalization and aggregation (lines 153-215).     *)
(***************************************************************************)
\* 'for a, b, ... in data_points:' with n names raises ValueError unless
\* every row has n columns.
UnpackFails(n) == \E i \in 1..Len(data_points) : Len(data_points[i]) # n

\* The rows that pass 'if entry_id in entries:'.
Known == SelectSeq(data_points, LAMBDA p : p[1] \in DOMAIN entries)

\* The keys of pbs_rtt_in_runs in insertion order, and its values.
Combos == Unique([i \in 1..Len(Known) |-> entries[Known[i][1]]])
pbs_rtt_in_runs(combo) ==
    {p[7] : p \in {q \in Range(Known) : entries[q[1]] = combo}}

Common == SelectSeq(Combos, LAMBDA combo : pbs_rtt_in_runs(combo) = Range(runs))

\* Lines 155-174.
FindCommon ==
    /\ pc = "queried"
    /\ IF ~normalize
       THEN /\ pc' = "common"
            /\ UNCHANGED <<normalize, common_pbs_rtt, warnings>>
       ELSE IF UnpackFails(7)
       THEN /\ pc' = "unpack_error"
            /\ UNCHANGED <<normalize, common_pbs_rtt, warnings>>
       ELSE /\ common_pbs_rtt' = Common
            /\ normalize' = (Common # <<>>)
            /\ warnings' = IF Common = <<>>
                           THEN Append(warnings,
                                       <<"No common PBS/RTT combination found", <<>>>>)
                           ELSE warnings
            /\ pc' = "common"
    /\ UNCHANGED <<vizvars, ingestvars, mainvars, experiment_id, selected_runs,
                   args_normalize, prime_editors, drugs, runs, entries,
                   data_points, run_normalization_factors, global_factor,
                   heatmap_data, averaged_data, matrices>>

\* 'ref_values' of a run: correct_edits of its rows at the reference point.
ref_values(run) ==
    LET at == SelectSeq(Known, LAMBDA p : p[7] = run /\ entries[p[1]] = common_pbs_rtt[1])
    IN  [i \in 1..Len(at) |-> at[i][2]]

\* Lines 176-194.
RunFactors ==
    /\ pc = "common"
    /\ IF ~normalize
       THEN /\ pc' = "factors"
            /\ UNCHANGED <<run_normalization_factors, global_factor>>
       ELSE IF UnpackFails(7)
       THEN /\ pc' = "unpack_error"
            /\ UNCHANGED <<run_normalization_factors, global_factor>>
       ELSE LET with == SelectSeq(runs, LAMBDA run : ref_values(run) # <<>>)
                factors == [run \in Range(with) |-> mean(ref_values(run))]
            IN  /\ run_normalization_factors' = factors
                /\ global_factor' =
                       IF with # <<>>
                       THEN mean([i \in 1..Len(with) |-> factors[with[i]]])
                       ELSE global_factor
                /\ pc' = "factors"
    /\ UNCHANGED <<vizvars, ingestvars, warnings, mainvars, experiment_id, selected_runs,
                   args_normalize, normalize, prime_editors, drugs, runs,
                   entries, data_points, common_pbs_rtt, heatmap_data,
                   averaged_data, matrices>>

\* Lines 200-203.
norm_factor(run) ==
    IF /\ normalize
       /\ run \in DOMAIN run_normalization_factors
       /\ Positive(run_normalization_factors[run])
    THEN RDiv(global_factor, run_normalization_factors[run])
    ELSE OnePointZero

Metrics == <<"correct_edits", "incorrect_edits", "scaffold_incorporated">>
ColumnOf(metric) == CHOOSE i \in 1..3 : Metrics[i] = metric

\* drugs.get(drug_id, "Unknown")
drug_name(drug_id) ==
    IF \E i \in 1..Len(drugs) : drugs[i].id = drug_id
    THEN drugs[CHOOSE i \in 1..Len(drugs) : drugs[i].id = drug_id].name
    ELSE "Unknown"

KeyOf(p, metric) == <<p[5], drug_name(p[8]), metric>>

\* The mean written as the first value of the list.
Averaged_First(data) ==
    [key \in DOMAIN data |-> [pos \in DOMAIN data[key] |-> data[key][pos][1]]]
\* Lines 212-215.
Averaged(data) ==
    [key \in DOMAIN data |-> [pos \in DOMAIN data[key] |-> mean(data[key][pos])]]

\* heatmap_data after the loop of lines 197-210.
Collected ==
    LET keys == {KeyOf(p, Metrics[m]) : p \in Range(Known), m \in 1..3}
        Hits(key, pos) ==
            SelectSeq(Known, LAMBDA p : KeyOf(p, key[3]) = key /\ entries[p[1]] = pos)
    IN  [key \in keys |->
            [pos \in {entries[p[1]] : p \in {q \in Range(Known) : KeyOf(q, key[3]) = key}} |->
                [i \in 1..Len(Hits(key, pos)) |->
                    RMul(Hits(key, pos)[i][1 + ColumnOf(key[3])],
                         norm_factor(Hits(key, pos)[i][7]))]]]

\* Lines 196-215.
Collect ==
    /\ pc = "factors"
    /\ IF UnpackFails(8)
       THEN /\ pc' = "unpack_error"
            /\ UNCHANGED <<heatmap_data, averaged_data>>
       ELSE /\ heatmap_data' = Collected
            /\ averaged_data' = Averaged(Collected)
            /\ pc' = "averaged"
    /\ UNCHANGED <<vizvars, ingestvars, warnings, mainvars, experiment_id, selected_runs,
                   args_normalize, normalize, prime_editors, drugs, runs,
                   entries, data_points, common_pbs_rtt,
                   run_normalization_factors, global_factor, matrices>>

(***************************************************************************)
(* create_heatmaps: the matrix of every key that has data (lines 241-262). *)
(***************************************************************************)
Matrix(values) ==
    LET positions == DOMAIN values
        pbs_values == sorted({pos[1] : pos \in positions})
        rtt_values == sorted({pos[2] : pos \in positions})
    IN  [pbs_values |-> pbs_values, rtt_values |-> rtt_values,
         matrix |-> [i \in 1..Len(pbs_values) |->
                        [j \in 1..Len(rtt_values) |->
                            IF <<pbs_values[i], rtt_values[j]>> \in positions
                            THEN values[<<pbs_values[i], rtt_values[j]>>]
                            ELSE nan]]]

create_heatmaps ==
    /\ pc = "averaged"
    /\ LET keys == {<<prime_editors[e], drugs[d].name, Metrics[m]>> :
                        e \in 1..Len(prime_editors), d \in 1..Len(drugs), m \in 1..3}
           drawn == {key \in keys \cap DOMAIN averaged_data :
                        DOMAIN averaged_data[key] # {}}
       IN  matrices' = [key \in drawn |-> Matrix(averaged_data[key])]
    /\ pc' = "drawn"
    /\ UNCHANGED <<vizvars, ingestvars, warnings, mainvars, experiment_id, selected_runs,
                   args_normalize, normalize, prime_editors, drugs, runs,
                   entries, data_points, common_pbs_rtt,
                   run_normalization_factors, global_factor, heatmap_data,
                   averaged_data>>

NextHeatmap ==
    \/ Query
    \/ FindCommon
    \/ RunFactors
    \/ Collect
    \/ create_heatmaps

SpecHeatmap == InitHeatmap /\ [][NextHeatmap]_vars

(***************************************************************************)
(* Properties of extract_batch_info (SpecParse).                           *)
(***************************************************************************)
Called(t) == parsed.called /\ Winner(batch_name) = t

\* C1: for a name whose winning template is 1, 2, 3, 4 or 6 the call returns
\* the fields the name was written from: pbs is the integer after 'P' and rtt
\* the integer after 'R' in either order (templates 2 and 4 are R-then-P),
\* replicate is the Rep suffix for templates 1-4 and 1 for template 6, the
\* reagent is the PE token for templates 1, 2, 6 and None for 3 and 4, and the
\* treatment is None for templates 1-4; "X_PE2_P5R10_drugA" gives
\* (PE2, 5, 10, 1, drugA).
C1_TemplateFields ==
    LET t == Winner(batch_name)
        v == parsed.value
    IN  (parsed.called /\ t \in {1, 2, 3, 4, 6}) =>
            /\ ~parsed.raised
            /\ v.pbs = Some(fields.a)
            /\ v.rtt = Some(fields.b)
            /\ (t \in {2, 4}) = (fields.order = "RP")
            /\ v.replicate = (IF t = 6 THEN Some(1) ELSE fields.rep)
            /\ v.replicate # None
            /\ v.prime_editor = (IF t \in {1, 2, 6} THEN fields.reagent ELSE None)
            /\ (v.prime_editor # None) = (t \in {1, 2, 6})
            /\ v.drug_code = (IF t = 6 THEN fields.drug ELSE None)
            /\ (v.drug_code # None) = (t = 6)
            /\ (batch_name = N6 =>
                   v = [prime_editor |-> Some(PE2), pbs |-> Some(5),
                        rtt |-> Some(10), replicate |-> Some(1),
                        drug_code |-> Some(drugA)])

\* A template 2 name (R before P, the two coordinates different) has been parsed.
C1_Witness ==
    /\ Called(2)
    /\ parsed.value.pbs = Some(12)
    /\ parsed.value.rtt = Some(10)
    /\ parsed.value.replicate = Some(13)

\* C2: for a name of template 5 the call returns a tuple whose treatment
\* code is the alphabetic token after the coordinates and whose replicate is
\* the integer of the Rep suffix.
C2_Template5Fields ==
    Called(5) =>
        /\ ~parsed.raised
        /\ parsed.value.drug_code = fields.drug
        /\ parsed.value.replicate = fields.rep

(***************************************************************************)
(* Properties of process_data (Spec).                                      *)
(***************************************************************************)
Measurements == Range(batches) \cup Range(missing_pe_batches)
NamesOf(seq) == {e.name : e \in Range(seq)}
Count(rows, amplicon) == Cardinality({i \in 1..Len(rows) : rows[i].Amplicon = amplicon})
Categories == {"Reference", "Prime-edited", "Scaffold-incorporated"}
OneOfEach(rows) == \A c \in Categories : Count(rows, c) = 1
TheRow(rows, amplicon) == CHOOSE r \in Range(rows) : r.Amplicon = amplicon
AllNone == [prime_editor |-> None, pbs |-> None, rtt |-> None,
            replicate |-> None, drug_code |-> None]

\* The step taken skips the current batch and goes on to the next one.
SkipsCurrent ==
    /\ idx' = idx + 1
    /\ pc' = "loop"
    /\ batches' = batches
    /\ missing_pe_batches' = missing_pe_batches
    /\ Len(warnings') > Len(warnings)
    /\ warnings'[Len(warnings')][2] = current

\* C3: for a batch name matching none of the six templates the parser
\* returns five None without raising, and process_data skips the batch with
\* a warning and goes on to the next batch.
C3_UnparsedSkipped ==
    [][(InLoop /\ Winner(current) = 0) =>
          /\ extract_batch_info(current) = [raised |-> FALSE, value |-> AllNone]
          /\ SkipsCurrent
          /\ current \notin NamesOf(batches') \cup NamesOf(missing_pe_batches')]_vars

\* An unparseable batch with three well-formed rows was skipped and the
\* batch after it was stored.
C3_Witness ==
    /\ Len(unique_batches) = 2
    /\ unique_batches[1] = N0
    /\ <<"Could not extract PBS, RTT, or replicate", N0>> \in Range(warnings)
    /\ NamesOf(batches) = {unique_batches[2]}

\* nan and inf equal nothing: a percentage times the total equals a number
\* only when it is a ratio.
PctTimes(pct, total, rhs) == pct.kind = "finite" /\ pct.num * total = rhs * pct.den

\* C4: for every accepted batch, with total the sum of Unmodified + Modified
\* + Discarded over its rows: correct * total = 100 * Prime-edited.Unmodified,
\* incorrect * total = 100 * Prime-edited.Modified and scaffold * total =
\* 100 * Scaffold-incorporated.Modified.
C4_Percentages ==
    \A e \in Measurements :
        LET rows == RowsOfBatch(e.name)
            total == SumReads(rows)
        IN  /\ PctTimes(e.correct_edits, total,
                        100 * TheRow(rows, "Prime-edited").Unmodified)
            /\ PctTimes(e.incorrect_edits, total,
                        100 * TheRow(rows, "Prime-edited").Modified)
            /\ PctTimes(e.scaffold_incorporated, total,
                        100 * TheRow(rows, "Scaffold-incorporated").Modified)

\* C5: a batch whose number of rows is not 3 is skipped (it is in neither
\* dict) and the loop goes on to the next batch.
C5_RowCountSkipped ==
    [][/\ (InLoop /\ Len(batch_data) # 3) => SkipsCurrent
       /\ \A e \in Range(batches') \cup Range(missing_pe_batches') :
              Len(RowsOfBatch(e.name)) = 3]_vars

\* A two-row batch was skipped and the next batch stored.
C5_Witness ==
    /\ Len(unique_batches) = 2
    /\ Len(RowsOfBatch(unique_batches[1])) = 2
    /\ <<"does not have exactly 3 rows", unique_batches[1]>> \in Range(warnings)
    /\ NamesOf(batches) = {unique_batches[2]}

\* C6: a 3-row batch is accepted only with exactly one row of each of the
\* three categories; with any other cardinality it is skipped.
C6_OneRowPerCategory ==
    [][/\ (InLoop /\ Len(batch_data) = 3 /\ ~OneOfEach(batch_data)) => SkipsCurrent
       /\ \A e \in Range(batches') \cup Range(missing_pe_batches') :
              OneOfEach(RowsOfBatch(e.name))]_vars

\* A 3-row batch with two Scaffold-incorporated rows was skipped and the
\* next batch stored.
C6_Witness ==
    /\ Len(unique_batches) = 2
    /\ Len(RowsOfBatch(unique_batches[1])) = 3
    /\ Count(RowsOfBatch(unique_batches[1]), "Scaffold-incorporated") = 2
    /\ idx = 3
    /\ NamesOf(batches) = {unique_batches[2]}

\* C7: a batch whose total read count is zero produces no measurement.
C7_ZeroTotalSkipped ==
    \A e \in Measurements : SumReads(RowsOfBatch(e.name)) # 0

\* A batch that is valid by itself.
ValidAlone(name) ==
    /\ Len(RowsOfBatch(name)) = 3
    /\ OneOfEach(RowsOfBatch(name))
    /\ SumReads(RowsOfBatch(name)) # 0
    /\ Winner(name) # 0

\* C8: process_data returns normally, and every batch that is valid by
\* itself (3 rows, one per category, non-zero total, a name matching one of
\* the six templates) is in its result.
C8_FailuresLocal ==
    /\ pc \notin {"raised", "exit_1"}
    /\ pc = "returned" =>
           \A i \in 1..Len(unique_batches) :
               ValidAlone(unique_batches[i]) => unique_batches[i] \in NamesOf(batches)

StrategyCount ==
    Cardinality({i \in 1..Len(prompts) : prompts[i].kind = "strategy"})
BatchPrompts == SelectSeq(prompts, LAMBDA q : q.kind = "batch")

\* The batches of the table that pass the row checks and whose name is of a
\* template without reagent (3 or 4).
ExpectedUnresolved ==
    {n \in Range(unique_batches) :
        /\ Len(RowsOfBatch(n)) = 3
        /\ OneOfEach(RowsOfBatch(n))
        /\ Winner(n) \in {3, 4}}

\* C9 as claimed: in one run the operator is asked for the strategy exactly
\* once, and only after every batch has been parsed and validated.
C9_ExactlyOnce ==
    /\ pc = "returned" => StrategyCount = 1
    /\ StrategyCount >= 1 => idx > Len(unique_batches)

\* C9 as amended: the operator is asked for the strategy at most once; the
\* request comes first among the prompts, only after every batch has been
\* parsed and validated, and shows the complete unresolved set; once the
\* loop has ended it is made exactly when some accepted batch lacks a
\* reagent, and never when process_data raises.
C9_AskedOnceIfUnresolved ==
    /\ StrategyCount <= 1
    /\ StrategyCount = 1 =>
           /\ idx > Len(unique_batches)
           /\ prompts[1].kind = "strategy"
    /\ pc \in {"individual", "returned"} =>
           /\ (StrategyCount = 1) = (ExpectedUnresolved # {})
           /\ StrategyCount = 1 => NamesOf(missing_pe_batches) = ExpectedUnresolved
    /\ pc \in {"raised", "exit_1"} => StrategyCount = 0

\* One answer resolved two batches without a reagent.
C9_Witness ==
    /\ pc = "returned"
    /\ StrategyCount = 1
    /\ Len(missing_pe_batches) = 2
    /\ response = Some(PE2)

\* C10: when the answer is 'different' in any case, process_data prompts
\* once per unresolved batch name and gives each batch its own answer as
\* prime editor; for any other answer that answer is the prime editor of
\* every unresolved batch and there is no further prompt.
C10_ResolutionMapping ==
    /\ response = None => \A q \in Range(prompts) : q.kind = "drug"
    /\ Cardinality(NamesOf(missing_pe_batches)) = Len(missing_pe_batches)
    /\ pc = "individual" =>
           /\ lower(response[1]) = different
           /\ Len(BatchPrompts) = ask_idx - 1
    /\ (pc = "returned" /\ response # None) =>
           \A i \in 1..Len(missing_pe_batches) :
               LET n == missing_pe_batches[i].name
                   editors == {e.prime_editor : e \in {x \in Range(batches) : x.name = n}}
               IN  IF lower(response[1]) = different
                   THEN /\ Len(BatchPrompts) = Len(missing_pe_batches)
                        /\ BatchPrompts[i].batch = n
                        /\ editors = {Some(BatchPrompts[i].answer)}
                   ELSE /\ BatchPrompts = <<>>
                        /\ editors = {response}

\* 'Different' was answered, then two batches got different prime editors.
C10_Witness ==
    /\ pc = "returned"
    /\ response = Some(<<"D","i","f","f","e","r","e","n","t">>)
    /\ Len(BatchPrompts) = 2
    /\ BatchPrompts[1].answer # BatchPrompts[2].answer

\* The answer the operator gave for the i-th unresolved batch, once
\* process_data has returned.
AnswerFor(i) ==
    IF lower(response[1]) = different THEN BatchPrompts[i].answer ELSE response[1]

\* C11: an unresolved batch for which the operator supplied no usable
\* reagent value (an empty answer) is not among the measurements
\* process_data returns.
C11_NoUsableValueExcluded ==
    (pc = "returned" /\ response # None) =>
        \A i \in 1..Len(missing_pe_batches) :
            AnswerFor(i) = <<>> =>
                missing_pe_batches[i].name \notin NamesOf(batches)

\* C12: every measurement in the result of process_data, and every data
\* point main has inserted, has a reagent that is not null; a batch whose
\* name carries no reagent (template 3 or 4) is tracked as unresolved and is
\* in the result only once the operator has answered for it, with that
\* answer as its reagent.
C12_ReagentNonNull ==
    /\ \A e \in Range(batches) :
           /\ e.prime_editor # None
           /\ ~conn.connected =>
                  (Winner(e.name) \in {3, 4} => e.name \in NamesOf(missing_pe_batches))
    /\ \A row \in Range(conn.data_points) : row.prime_editor # None
    /\ \A i \in 1..Len(missing_pe_batches) :
           \A e \in Range(batches) :
               e.name = missing_pe_batches[i].name =>
                   /\ response # None
                   /\ lower(response[1]) = different => i <= Len(BatchPrompts)
                   /\ e.prime_editor = Some(AnswerFor(i))

\* A batch without a reagent in its name was resolved by the operator and
\* inserted as a data point with the operator's answer.
C12_Witness ==
    /\ pc = "done"
    /\ NamesOf(missing_pe_batches) = {N3}
    /\ \E row \in Range(conn.data_points) : row.prime_editor = Some(PE2)
    /\ Len(conn.data_points) = Len(batches)

\* The treatment code extract_batch_info returns for a name.
ParsedCode(name) == extract_batch_info(name).value.drug_code
IsCtrl(code) == lower(code) = <<"c","t","r","l">>

\* C13: the treatment code of a measurement of process_data is absent
\* exactly when the parsed code is absent or equals 'ctrl' ignoring case,
\* and is the parsed code otherwise; a data point of a measurement without code gets the
\* reserved drug id with no prompt and no change of the cache, no 'ctrl'
\* code is ever prompted for or cached, and a data point of a measurement
\* with a code gets the drug id cached for that code.
C13_ControlIsNoTreatment ==
    [][/\ pc \in {"loop", "individual"} =>
              \A e \in Range(batches') \cup Range(missing_pe_batches') :
                  LET code == ParsedCode(e.name) IN
                  e.drug_code = (IF code # None /\ IsCtrl(code[1]) THEN None ELSE code)
       /\ \A code \in DOMAIN drug_cache' : ~IsCtrl(code)
       /\ \A q \in Range(prompts') : q.kind = "drug" => ~IsCtrl(q.batch)
       /\ (InInsertion /\ Len(conn'.data_points) > Len(conn.data_points)) =>
              LET row == conn'.data_points[Len(conn'.data_points)] IN
              IF item.drug_code = None
              THEN /\ row.drug_id = NoDrugId
                   /\ prompts' = prompts
                   /\ drug_cache' = drug_cache
              ELSE /\ item.drug_code[1] \in DOMAIN drug_cache'
                   /\ row.drug_id = drug_cache'[item.drug_code[1]]]_vars

\* A batch with code 'Ctrl' and a batch with code 'drugA' were inserted: the
\* first with the reserved drug id and no prompt, the second with a drug the
\* operator created.
C13_Witness ==
    /\ pc = "done"
    /\ NamesOf(batches) = {N6c, N6}
    /\ Len(conn.data_points) = 2
    /\ {row.drug_id : row \in Range(conn.data_points)} = {NoDrugId, "uuid-3"}
    /\ DOMAIN drug_cache = {drugA}
    /\ Cardinality({i \in 1..Len(prompts) : prompts[i].kind = "drug"}) = 1

(***************************************************************************)
(* Properties of get_experiment_data and create_heatmaps (SpecHeatmap).    *)
(***************************************************************************)
\* The coordinate of a data point of the database.
CoordinateOf(d) ==
    LET e == CHOOSE x \in Range(conn.experiment_entries) : x.id = d.experiment_entry_id
    IN  <<e.pbs, e.rtt>>

\* The runs being normalized, and the runs with a data point at a coordinate.
NormalizedRuns ==
    {r.id : r \in {x \in Range(conn.runs) :
                      /\ x.experiment_id = experiment_id
                      /\ selected_runs # <<>> => x.id \in Range(selected_runs)}}
RunsAt(pos) == {d.run_id : d \in {x \in Range(Joined) : CoordinateOf(x) = pos}}
Observed == {CoordinateOf(d) : d \in Range(Joined)}
Candidates == {pos \in Observed : RunsAt(pos) = NormalizedRuns}

Past(places) == pc \in places

\* C14: with normalization requested, get_experiment_data does not fail
\* and its candidate reference points are exactly the coordinates whose
\* set of runs with a data point there equals the set of runs normalized.
C14_CandidatesCoverAllRuns ==
    args_normalize =>
        /\ pc # "unpack_error"
        /\ Past({"common", "factors", "averaged", "drawn"}) =>
               /\ Range(common_pbs_rtt) = Candidates
               /\ Len(common_pbs_rtt) = Cardinality(Candidates)

\* The key and the stored values of the data points of the database.
NameOfDrug(drug_id) ==
    IF \E dr \in Range(conn.drugs) : dr.id = drug_id
    THEN (CHOOSE dr \in Range(conn.drugs) : dr.id = drug_id).name
    ELSE "Unknown"
ExpectedKeys ==
    {<<d.prime_editor, NameOfDrug(d.drug_id), Metrics[m]>> :
        d \in Range(Joined), m \in 1..3}
PointsAt(key, pos) ==
    SelectSeq(Joined, LAMBDA d : /\ d.prime_editor = key[1]
                                 /\ NameOfDrug(d.drug_id) = key[2]
                                 /\ CoordinateOf(d) = pos)
PlainValues(key, pos) ==
    [i \in 1..Len(PointsAt(key, pos)) |-> Real(PointsAt(key, pos)[i][key[3]])]

\* The averages of a call without normalization.
PlainAverages ==
    [key \in ExpectedKeys |->
        [pos \in {q \in Observed : PointsAt(key, q) # <<>>} |->
            mean(PlainValues(key, pos))]]

\* C15: when normalization is requested and no coordinate is in every
\* run, get_experiment_data does not fail, prints a warning and returns
\* the averages of a call without normalization.
C15_NoCommonFallsBack ==
    (args_normalize /\ Candidates = {}) =>
        /\ pc # "unpack_error"
        /\ Past({"averaged", "drawn"}) =>
               /\ <<"No common PBS/RTT combination found", <<>>>> \in Range(warnings)
               /\ averaged_data = PlainAverages

\* correct_edits of the data points of a run at the reference point.
RefCorrect(run) ==
    LET at == SelectSeq(Joined, LAMBDA d : /\ d.run_id = run
                                           /\ CoordinateOf(d) = common_pbs_rtt[1])
    IN  [i \in 1..Len(at) |-> Real(at[i].correct_edits)]

\* C16: with normalization requested and a common coordinate,
\* get_experiment_data does not fail; the factor of a run is the mean of
\* correct_edits of its data points at the reference point, global_factor
\* is the mean of the run factors, and in every run with a positive factor
\* the mean of the scaled correct_edits at the reference point is
\* global_factor.
C16_ReferenceFactors ==
    (args_normalize /\ Candidates # {}) =>
        /\ pc # "unpack_error"
        /\ Past({"factors", "averaged", "drawn"}) =>
               LET f == run_normalization_factors
                   with == SelectSeq(runs, LAMBDA run : run \in DOMAIN f)
               IN  /\ DOMAIN f = {run \in NormalizedRuns : RefCorrect(run) # <<>>}
                   /\ \A run \in DOMAIN f : f[run] = mean(RefCorrect(run))
                   /\ global_factor = mean([i \in 1..Len(with) |-> f[with[i]]])
                   /\ \A run \in DOMAIN f :
                          Positive(f[run]) =>
                              mean([i \in 1..Len(RefCorrect(run)) |->
                                       RMul(RefCorrect(run)[i],
                                            RDiv(global_factor, f[run]))])
                                  = global_factor

\* The factor the claim gives a data point of a run.
ExpectedFactor(run) ==
    IF /\ args_normalize
       /\ Candidates # {}
       /\ run \in DOMAIN run_normalization_factors
       /\ Positive(run_normalization_factors[run])
    THEN RDiv(global_factor, run_normalization_factors[run])
    ELSE OnePointZero

\* C17: get_experiment_data with normalization does not fail, and the three
\* metrics of a data point are stored multiplied by one factor:
\* global_factor / run_factor when normalization is active and the factor
\* of its run is positive, 1.0 otherwise.
C17_SameFactorForAllMetrics ==
    /\ args_normalize => pc # "unpack_error"
    /\ Past({"averaged", "drawn"}) =>
           \A key \in ExpectedKeys, pos \in Observed :
               LET hits == PointsAt(key, pos) IN
               hits # <<>> =>
                   heatmap_data[key][pos] =
                       [i \in 1..Len(hits) |->
                           RMul(Real(hits[i][key[3]]), ExpectedFactor(hits[i].run_id))]

\* C18: for every key and coordinate, get_experiment_data returns the
\* arithmetic mean of the list of values collected for them; the list has
\* one value per data point of the experiment and the selected runs
\* matching the key and the coordinate, which is the stored value when
\* normalization is off; no other key or coordinate is returned.
C18_MeanOfMatchingPoints ==
    Past({"averaged", "drawn"}) =>
        /\ DOMAIN averaged_data = ExpectedKeys
        /\ \A key \in ExpectedKeys :
               /\ DOMAIN averaged_data[key] = {q \in Observed : PointsAt(key, q) # <<>>}
               /\ \A pos \in DOMAIN averaged_data[key] :
                      LET vals == heatmap_data[key][pos]
                          avg == averaged_data[key][pos]
                      IN  /\ Len(vals) = Len(PointsAt(key, pos))
                          /\ ~normalize => vals = PlainValues(key, pos)
                          /\ avg.den # 0
                          /\ RMul(avg, Rat(Len(vals), 1)) = RSum(vals)

\* correct_edits 10, 12 and 14 of one key at one coordinate, from two
\* runs, were averaged to 12.
C18_Witness ==
    /\ pc = "averaged"
    /\ \E key \in DOMAIN averaged_data :
           /\ key[3] = "correct_edits"
           /\ \E pos \in DOMAIN averaged_data[key] :
                  /\ Range(heatmap_data[key][pos]) = {Rat(10, 1), Rat(12, 1), Rat(14, 1)}
                  /\ averaged_data[key][pos] = Rat(12, 1)
                  /\ Cardinality({d.run_id : d \in Range(PointsAt(key, pos))}) = 2

StrictlyAscending(seq) == \A i \in 1..Len(seq) - 1 : seq[i] < seq[i + 1]

\* C19: in every matrix create_heatmaps builds, the row labels are the
\* distinct pbs values of the key's coordinates and the column labels the
\* distinct rtt values, both strictly ascending; a cell of an observed
\* coordinate holds its average, and every other cell holds nan, which is
\* not a number and so not 0.
C19_MatrixAxesAndCells ==
    pc = "drawn" =>
        \A key \in DOMAIN matrices :
            LET m == matrices[key]
                data == averaged_data[key]
            IN  /\ StrictlyAscending(m.pbs_values)
                /\ StrictlyAscending(m.rtt_values)
                /\ Range(m.pbs_values) = {pos[1] : pos \in DOMAIN data}
                /\ Range(m.rtt_values) = {pos[2] : pos \in DOMAIN data}
                /\ DOMAIN m.matrix = 1..Len(m.pbs_values)
                /\ \A i \in 1..Len(m.pbs_values) :
                       /\ DOMAIN m.matrix[i] = 1..Len(m.rtt_values)
                       /\ \A j \in 1..Len(m.rtt_values) :
                              LET pos == <<m.pbs_values[i], m.rtt_values[j]>> IN
                              IF pos \in DOMAIN data
                              THEN m.matrix[i][j] = data[pos] /\ data[pos].den # 0
                              ELSE m.matrix[i][j] = nan /\ nan # Rat(0, 1)

\* A 2 x 2 matrix was built from data points at (12, 20) and (5, 10), in
\* that order: two cells hold averages and two hold nan.
C19_Witness ==
    /\ pc = "drawn"
    /\ Len(data_points) >= 2
    /\ entries[data_points[1][1]] = <<12, 20>>
    /\ \E key \in DOMAIN matrices :
           /\ matrices[key].pbs_values = <<5, 12>>
           /\ matrices[key].rtt_values = <<10, 20>>
           /\ matrices[key].matrix[1][2] = nan
           /\ matrices[key].matrix[2][1] = nan
           /\ matrices[key].matrix[1][1].den # 0
           /\ matrices[key].matrix[2][2].den # 0

(***************************************************************************)
(* Properties of main's insertion loop (Spec).                             *)
(***************************************************************************)
\* The measurement has an experiment entry in the selected experiment.
Found(e) == get_experiment_entry_id(selected_experiment_id[1], e.pbs, e.rtt) # {}

\* The measurements the insertion loop has gone through.
Handled == SubSeq(batches, 1, batch_idx - 1)

\* C21: main's insertion loop never stops early; a measurement whose
\* coordinate has no experiment entry is dropped with a warning, every
\* other measurement gives exactly one data point, and data_points_added
\* is the number of measurements whose coordinate was found.
C21_OnePointPerFoundMeasurement ==
    /\ pc # "crashed"
    /\ pc \in {"insert", "done"} =>
           /\ data_points_added =
                  Cardinality({i \in 1..Len(Handled) : Found(Handled[i])})
           /\ Len(conn.data_points) = data_points_added
           /\ \A i \in 1..Len(Handled) :
                  ~Found(Handled[i]) =>
                      <<"No experiment entry found", Handled[i].name>> \in Range(warnings)
    /\ pc = "done" => batch_idx = Len(batches) + 1

\* process_data is running, has raised, or has just returned.
BeforeConnect == pc \in {"loop", "individual", "raised", "exit_1", "returned"}

\* C22: nothing is persisted before the resolver has returned: while
\* process_data runs, after it has raised, and until main connects, the
\* database is not opened and holds no run row and no data point of this
\* execution; once a run row or a data point exists, every unresolved
\* batch has got its reagent; and no step of process_data or of the
\* failure path changes the database.
C22_ResolveBeforePersist ==
    [][/\ BeforeConnect' =>
              /\ ~conn'.connected
              /\ conn'.runs = <<>>
              /\ conn'.data_points = <<>>
       /\ (conn'.runs # <<>> \/ conn'.data_points # <<>>) =>
              /\ idx' > Len(unique_batches)
              /\ NamesOf(missing_pe_batches') \subseteq NamesOf(batches')
              /\ missing_pe_batches' # <<>> => response' # None
       /\ conn' # conn => pc \in {"returned", "connected", "insert"}]_vars

\* Two unresolved batches were resolved one by one, then the run row and
\* one data point (the other coordinate has no entry) were written.
C22_Witness ==
    /\ pc = "done"
    /\ Len(BatchPrompts) = 2
    /\ Len(conn.runs) = 1
    /\ Len(conn.data_points) = 1
    /\ Len(batches) = 2

(***************************************************************************)
(* Priority of the templates (SpecParse).                                  *)
(***************************************************************************)
PatternOf(t) ==
    <<pattern1, pattern2, pattern3, pattern4, pattern_drug_rep, pattern_drug>>[t]
Matching(name) == {t \in 1..6 : match(PatternOf(t), name).ok}
Highest(name) == CHOOSE t \in Matching(name) : \A u \in Matching(name) : t <= u

\* What the branch of template t returns on its own match object.
BranchResult(t, name) ==
    LET m == match(PatternOf(t), name) IN
    CASE t = 1 -> Template1(m)
      [] t = 2 -> Template2(m)
      [] t = 3 -> Template3(m)
      [] t = 4 -> Template4(m)
      [] t = 5 -> TemplateDrugRep(m)
      [] t = 6 -> TemplateDrug(m)

\* C23: for a name that matches more than one template, the call gives
\* what the branch of the matching template of highest priority (lowest
\* number in the order 1..6) gives on its own match; a name matching
\* templates 1 and 3 keeps the reagent of template 1, one matching 2 and 4
\* the reagent of template 2.
C23_HighestPriorityWins ==
    (parsed.called /\ Cardinality(Matching(batch_name)) >= 2) =>
        LET r == BranchResult(Highest(batch_name), batch_name) IN
        /\ parsed.raised = r.raised
        /\ parsed.value = r.value
        /\ Highest(batch_name) \in {1, 2} =>
               /\ parsed.value.prime_editor = fields.reagent
               /\ fields.reagent # None

\* A name with a reagent of letters only matches templates 1 and 3 and was
\* parsed by template 1.
C23_Witness ==
    /\ parsed.called
    /\ Matching(batch_name) = {1, 3}
    /\ parsed.value.prime_editor = Some(<<"P","E","m","a","x">>)

(***************************************************************************)
(* Choice of the reference point (SpecHeatmap).                            *)
(***************************************************************************)
FirstAppearance(pos) ==
    CHOOSE i \in 1..Len(Joined) :
        /\ CoordinateOf(Joined[i]) = pos
        /\ \A j \in 1..(i - 1) : CoordinateOf(Joined[j]) # pos
FirstCandidate ==
    CHOOSE pos \in Candidates :
        \A other \in Candidates : FirstAppearance(pos) <= FirstAppearance(other)

DrugPrompts(code) ==
    {i \in 1..Len(prompts) : prompts[i].kind = "drug" /\ prompts[i].batch = code}
AllDrugPrompts == {i \in 1..Len(prompts) : prompts[i].kind = "drug"}

\* C25: the operator is asked to map a treatment code at most once in a
\* run; the insertion loop starts with an empty cache, and from then on the
\* cache holds exactly the codes the operator was asked about in this run.
C25_AskedOncePerCode ==
    /\ \A i \in AllDrugPrompts : DrugPrompts(prompts[i].batch) = {i}
    /\ pc \in {"loop", "individual", "returned", "connected"} => drug_cache = <<>>
    /\ (pc = "insert" /\ batch_idx = 1) => drug_cache = <<>>
    /\ pc \in {"insert", "done", "crashed"} =>
           DOMAIN drug_cache = {prompts[i].batch : i \in AllDrugPrompts}

\* Two batches with the code drugA were inserted with one question: both
\* data points carry the drug id of the cache.
C25_Witness ==
    /\ pc = "done"
    /\ Len(batches) = 2
    /\ \A i \in 1..2 : batches[i].drug_code = Some(drugA)
    /\ Len(conn.data_points) = 2
    /\ \A i \in 1..2 : conn.data_points[i].drug_id = drug_cache[drugA]
    /\ Cardinality(AllDrugPrompts) = 1

(***************************************************************************)
(* Batches that measure the same thing (Spec, SpecHeatmap).                *)
(***************************************************************************)
SameMeasurement(a, b) ==
    <<a.pbs, a.rtt, a.prime_editor, a.replicate, a.drug_code>>
        = <<b.pbs, b.rtt, b.prime_editor, b.replicate, b.drug_code>>
Duplicates ==
    {p \in (1..Len(batches)) \X (1..Len(batches)) :
        p[1] < p[2] /\ SameMeasurement(batches[p[1]], batches[p[2]])}

\* The batches of the table that pass the row checks and whose name gives
\* a coordinate and a replicate.
Usable ==
    {n \in Range(unique_batches) :
        /\ Len(RowsOfBatch(n)) = 3
        /\ Len(RowsOfAmplicon(RowsOfBatch(n), "Prime-edited")) = 1
        /\ Len(RowsOfAmplicon(RowsOfBatch(n), "Scaffold-incorporated")) = 1
        /\ Winner(n) \in {1, 2, 3, 4, 6}}

\* The data point of the i-th batch: found batches are inserted in order.
PointOf(i) == Cardinality({k \in 1..i : Found(batches[k])})

\* The data points of the database that agree on entry, prime editor,
\* replicate, run and drug.
SamePoint(a, b) ==
    <<a.experiment_entry_id, a.prime_editor, a.replicate, a.run_id, a.drug_id>>
        = <<b.experiment_entry_id, b.prime_editor, b.replicate, b.run_id, b.drug_id>>

\* C26: batches that differ in name only are neither rejected nor merged:
\* process_data returns one measurement per usable batch name whatever
\* the others resolve to; a finished ingestion has inserted one data
\* point for every batch whose coordinate is found, duplicates included;
\* and the list averaged for a key and a coordinate has one value per
\* data point, so data points that agree on entry, prime editor,
\* replicate, run and drug all enter the mean.
C26_DuplicatesKept ==
    /\ pc = "returned" =>
           /\ NamesOf(batches) = Usable
           /\ Len(batches) = Cardinality(Usable)
    /\ pc = "done" =>
           /\ Len(conn.data_points) = PointOf(Len(batches))
           /\ \A i \in 1..Len(batches) :
                  Found(batches[i]) =>
                      LET d == conn.data_points[PointOf(i)] IN
                      /\ d.prime_editor = batches[i].prime_editor
                      /\ d.replicate = batches[i].replicate
                      /\ d.correct_edits = batches[i].correct_edits
                      /\ d.experiment_entry_id \in
                             get_experiment_entry_id(selected_experiment_id[1],
                                                     batches[i].pbs, batches[i].rtt)
           /\ \A p \in Duplicates :
                  (Found(batches[p[1]]) /\ Found(batches[p[2]])) =>
                      /\ PointOf(p[1]) # PointOf(p[2])
                      /\ SamePoint(conn.data_points[PointOf(p[1])],
                                   conn.data_points[PointOf(p[2])])
    /\ Past({"averaged", "drawn"}) =>
           \A key \in DOMAIN averaged_data : \A pos \in DOMAIN averaged_data[key] :
               /\ Len(heatmap_data[key][pos]) = Len(PointsAt(key, pos))
               /\ RMul(averaged_data[key][pos], Rat(Len(PointsAt(key, pos)), 1))
                      = RSum(heatmap_data[key][pos])

\* Two batches that differ in the prefix of the name only were both
\* returned and both inserted.
C26_Witness ==
    /\ pc = "done"
    /\ Duplicates = {<<1, 2>>}
    /\ batches[1].name # batches[2].name
    /\ Len(conn.data_points) = 2
    /\ SamePoint(conn.data_points[1], conn.data_points[2])

\* Two data points that agree on entry, prime editor, replicate, run and
\* drug, with correct_edits 10 and 12, were averaged to 11.
C26_WitnessMean ==
    /\ pc = "averaged"
    /\ \E i, j \in 1..Len(Joined) :
           /\ i # j
           /\ SamePoint(Joined[i], Joined[j])
           /\ Joined[i].correct_edits # Joined[j].correct_edits
    /\ \E key \in DOMAIN averaged_data : \E pos \in DOMAIN averaged_data[key] :
           /\ key[3] = "correct_edits"
           /\ heatmap_data[key][pos] = <<Rat(10, 1), Rat(12, 1)>>
           /\ averaged_data[key][pos] = Rat(11, 1)

(***************************************************************************)
(* Range of the percentages (Spec).                                        *)
(***************************************************************************)
Least(a, b) == IF a <= b THEN a ELSE b
Aligned(f, e) == ShiftLeft(f.bits, f.exp - e)
\* f <= g, and the exact sum f + g, of two non-negative floats.
LessEq(f, g) ==
    LET e == Least(f.exp, g.exp) IN LessEqBits(Aligned(f, e), Aligned(g, e))
ExactSum(f, g) ==
    LET e == Least(f.exp, g.exp)
    IN  [bits |-> PlusBits(Aligned(f, e), Aligned(g, e), 0), exp |-> e]
Hundred == [bits |-> BitsOfNat(100), exp |-> 0]
\* 100 + 2^-45: two units in the last place of 100.
HundredAndTwoUlps ==
    [bits |-> PlusBits(ShiftLeft(BitsOfNat(100), 45), <<1>>, 0), exp |-> 0 - 45]

PercentageSum(e) ==
    ExactSum(ExactSum(e.correct_edits, e.incorrect_edits), e.scaffold_incorporated)
NonNegativeCounts(rows) ==
    \A i \in 1..Len(rows) :
        rows[i].Unmodified >= 0 /\ rows[i].Modified >= 0 /\ rows[i].Discarded >= 0
PositiveTotal ==
    {e \in Measurements : /\ NonNegativeCounts(RowsOfBatch(e.name))
                          /\ SumReads(RowsOfBatch(e.name)) > 0}
InRange(pct) == pct.kind = "finite" /\ pct.num >= 0 /\ LessEq(pct, Hundred)

\* C27 as stated: for every measurement of a batch with non-negative
\* counts and a positive total, each of the three percentages lies in
\* [0, 100] and their sum is at most 100.
C27_SumAtMost100 ==
    pc = "returned" =>
        \A e \in PositiveTotal :
            /\ InRange(e.correct_edits)
            /\ InRange(e.incorrect_edits)
            /\ InRange(e.scaffold_incorporated)
            /\ LessEq(PercentageSum(e), Hundred)

\* C27 amended: each of the three percentages lies in [0, 100]; the ratios
\* they approximate sum to at most 100; the sum of the float64 values is
\* at most 100 + 2^-45.
C27_SumAtMost100UpToRounding ==
    pc = "returned" =>
        \A e \in PositiveTotal :
            /\ InRange(e.correct_edits)
            /\ InRange(e.incorrect_edits)
            /\ InRange(e.scaffold_incorporated)
            /\ e.correct_edits.den = e.incorrect_edits.den
            /\ e.correct_edits.den = e.scaffold_incorporated.den
            /\ e.correct_edits.num + e.incorrect_edits.num
                   + e.scaffold_incorporated.num <= 100 * e.correct_edits.den
            /\ LessEq(PercentageSum(e), HundredAndTwoUlps)

\* A batch whose prime-edited and scaffold counts make up the whole total
\* (0, 1 and 5 of 6 reads): the three float64 values sum to more than 100.
C27_Witness ==
    /\ pc = "returned"
    /\ \E e \in PositiveTotal :
           /\ SumReads(RowsOfBatch(e.name)) = 6
           /\ ~LessEq(PercentageSum(e), Hundred)
           /\ LessEq(PercentageSum(e), HundredAndTwoUlps)

(***************************************************************************)
(* What the resolver leaves alone (Spec).                                  *)
(***************************************************************************)
\* The kind, numerator and denominator of a percentage, and those of
\* (count / total) * 100.
Ratio(pct) == <<pct.kind, pct.num, pct.den>>
RatioOf(count, total) ==
    IF total # 0 THEN <<"finite", 100 * count, total>>
    ELSE IF count = 0 THEN <<"nan", 0, 0>>
    ELSE <<"inf", count, 0>>

\* The values computed for a batch of the table in the loop of lines 86-153.
AsParsed(name) ==
    LET r == extract_batch_info(name).value
        rows == RowsOfBatch(name)
        total == SumReads(rows)
    IN  [pbs |-> r.pbs[1], rtt |-> r.rtt[1], replicate |-> r.replicate[1],
         drug_code |-> ControlToNone(r.drug_code),
         correct_edits |-> RatioOf(TheRow(rows, "Prime-edited").Unmodified, total),
         incorrect_edits |-> RatioOf(TheRow(rows, "Prime-edited").Modified, total),
         scaffold_incorporated |->
             RatioOf(TheRow(rows, "Scaffold-incorporated").Modified, total),
         prime_editor |-> r.prime_editor]

\* C28: when process_data has returned, the coordinate, replicate, three
\* percentages and treatment code of every measurement are the values
\* computed from its name and rows, and a measurement whose name carries
\* a reagent has that reagent whatever the operator answered.
C28_ResolverChangesReagentOnly ==
    pc = "returned" =>
        \A i \in 1..Len(batches) :
            LET e == batches[i]
                p == AsParsed(e.name)
            IN  /\ <<e.pbs, e.rtt, e.replicate, e.drug_code>>
                       = <<p.pbs, p.rtt, p.replicate, p.drug_code>>
                /\ <<Ratio(e.correct_edits), Ratio(e.incorrect_edits),
                      Ratio(e.scaffold_incorporated)>>
                       = <<p.correct_edits, p.incorrect_edits, p.scaffold_incorporated>>
                /\ p.prime_editor # None => e.prime_editor = p.prime_editor
                /\ p.prime_editor = None =>
                       \E answer \in Answers : e.prime_editor = Some(answer)

\* The operator answered something else than PE2 for the one unresolved
\* batch; the batch whose name carries PE2 kept it.
C28_Witness ==
    /\ pc = "returned"
    /\ Len(batches) = 2
    /\ Len(missing_pe_batches) = 1
    /\ response # None /\ response # Some(PE2)
    /\ batches[1].prime_editor = Some(PE2)
    /\ batches[2].prime_editor = response
    /\ batches[2].replicate = 13

(***************************************************************************)
(* Normalization with equal run factors (SpecHeatmap).                     *)
(***************************************************************************)
\* The mean of correct_edits of a run at the first candidate, from the
\* rows of the database.
FactorOf(run) ==
    LET at == SelectSeq(Joined, LAMBDA d : /\ d.run_id = run
                                           /\ CoordinateOf(d) = FirstCandidate)
    IN  mean([i \in 1..Len(at) |-> Real(at[i].correct_edits)])
EqualPositiveFactors ==
    /\ Candidates # {}
    /\ \A run \in NormalizedRuns : Positive(FactorOf(run))
    /\ \A r1, r2 \in NormalizedRuns : FactorOf(r1) = FactorOf(r2)

\* C29: with normalization requested and run factors that are positive
\* and equal (a single run in particular), get_experiment_data does not
\* fail and returns the averages of a call without normalization.
C29_EqualFactorsIdentity ==
    (args_normalize /\ EqualPositiveFactors) =>
        /\ pc # "unpack_error"
        /\ Past({"averaged", "drawn"}) => averaged_data = PlainAverages

(***************************************************************************)
(* visualisation_tools/run_2d_visualizer.py: ExperimentVisualizer.         *)
(* The database is read only; every handler of the Tk main loop is one     *)
(* action.                                                                 *)
(***************************************************************************)
\* A database with a run that has no data point (run-3).
VisualizerStore ==
    [connected |-> TRUE,
     experiments |-> <<[id |-> "exp-1", name |-> "screen"],
                       [id |-> "exp-2", name |-> "pilot"]>>,
     experiment_entries |->
         <<[id |-> "entry-1", experiment_id |-> "exp-1", pbs |-> 5, rtt |-> 10],
           [id |-> "entry-2", experiment_id |-> "exp-1", pbs |-> 6, rtt |-> 11],
           [id |-> "entry-3", experiment_id |-> "exp-1", pbs |-> 7, rtt |-> 10],
           [id |-> "entry-4", experiment_id |-> "exp-1", pbs |-> 5, rtt |-> 11],
           [id |-> "entry-9", experiment_id |-> "exp-2", pbs |-> 5, rtt |-> 20]>>,
     drugs |-> <<DefaultDrug>>,
     runs |-> <<[id |-> "run-2", run_name |-> "run B", experiment_id |-> "exp-1"],
                [id |-> "run-1", run_name |-> "run A", experiment_id |-> "exp-1"],
                [id |-> "run-3", run_name |-> "run C", experiment_id |-> "exp-1"],
                [id |-> "run-9", run_name |-> "run D", experiment_id |-> "exp-2"]>>,
     data_points |->
         LET rows == <<DataPoint("entry-1", 10, 2, 1, PE2, "run-1", NoDrugId),
                       DataPoint("entry-1", 12, 4, 0, PE2, "run-1", NoDrugId),
                       DataPoint("entry-2", 14, 0, 7, PE2, "run-1", NoDrugId),
                       DataPoint("entry-3", 10, 2, 1, PE2, "run-2", NoDrugId),
                       DataPoint("entry-1", 12, 4, 0, PE2, "run-2", NoDrugId),
                       DataPoint("entry-4", 14, 0, 7, PE2, "run-2", NoDrugId),
                       DataPoint("entry-9", 50, 5, 5, PEmax, "run-9", NoDrugId)>>
         IN  [i \in 1..Len(rows) |-> [rows[i] EXCEPT !.id = "dp-" \o ToString(i)]]]

\* The x and y of the mouse events: in the margin, in the grid, beyond it.
Pixels == {20, 60, 200, 280, 400}

\* ORDER BY: the rows of S in the order Before.
OrderBy(S, Before(_, _)) ==
    [i \in 1..Cardinality(S) |->
        CHOOSE r \in S : Cardinality({x \in S : Before(x, r)}) = i - 1]
\* The collation of the names of the database.
NameOrder == <<"pilot", "run A", "run B", "run C", "run D", "screen">>
NameBefore(a, b) ==
    \E i, j \in 1..Len(NameOrder) : i < j /\ NameOrder[i] = a /\ NameOrder[j] = b

\* 'SELECT id, name FROM experiments ORDER BY name'
load_experiments ==
    OrderBy({<<e.id, e.name>> : e \in Range(conn.experiments)},
            LAMBDA a, b : NameBefore(a[2], b[2]))

\* 'SELECT id, run_name FROM runs WHERE experiment_id = ? ORDER BY run_name'
load_runs(experiment) ==
    OrderBy({<<r.id, r.run_name>> :
                r \in {x \in Range(conn.runs) : x.experiment_id = experiment}},
            LAMBDA a, b : NameBefore(a[2], b[2]))

\* 'JOIN experiment_entries ee ON dp.experiment_entry_id = ee.id'
EntryOf(d) ==
    CHOOSE e \in Range(conn.experiment_entries) : e.id = d.experiment_entry_id

\* 'SELECT DISTINCT ee.pbs, ee.rtt ... WHERE dp.run_id = ? ORDER BY ee.pbs,
\* ee.rtt'
PbsRttOfRun(run) ==
    OrderBy({<<EntryOf(d).pbs, EntryOf(d).rtt>> :
                d \in {x \in Range(conn.data_points) : x.run_id = run}},
            LAMBDA a, b : a[1] < b[1] \/ (a[1] = b[1] /\ a[2] < b[2]))

\* min() and max() of a list comprehension.
Smallest(S) == CHOOSE x \in S : \A y \in S : x <= y
Largest(S) == CHOOSE x \in S : \A y \in S : x >= y

InitVisualizer ==
    /\ fields = NoFields
    /\ batch_name = <<>>
    /\ parsed = NotCalled
    /\ df = <<>>
    /\ idx = 0
    /\ batches = <<>>
    /\ missing_pe_batches = <<>>
    /\ response = None
    /\ ask_idx = 0
    /\ prompts = <<>>
    /\ warnings = <<>>
    /\ IdleMain
    /\ IdleHeatmap
    /\ conn = VisualizerStore
    /\ experiments = load_experiments
    /\ selected_experiment = None
    /\ self_runs = <<>>
    /\ selected_run = None
    /\ available_pbs_rtt = <<>>
    /\ grid = None
    /\ selected_cells = {}
    /\ dragging = FALSE
    /\ last_cell = None
    /\ status_var = <<"Loaded experiments", Len(load_experiments)>>
    /\ pc = "mainloop"

\* Lines 108-140: the experiment dropdown; load_runs.
on_experiment_selected ==
    /\ pc = "mainloop"
    /\ \E selection \in 0..(Len(experiments) - 1) :
          /\ selected_experiment' = Some(experiments[selection + 1][1])
          /\ self_runs' = load_runs(experiments[selection + 1][1])
          /\ status_var' = <<"Loaded runs for the selected experiment",
                             Len(load_runs(experiments[selection + 1][1]))>>
    /\ UNCHANGED <<ingestvars, warnings, pc, mainvars, heatvars, experiments,
                   selected_run, available_pbs_rtt, grid, selected_cells, dragging,
                   last_cell>>

\* Lines 169-180 and create_grid (211-287): the ranges, the number of
\* cells, cell_size = min(360 / num_rows, 360 / num_cols) as a ratio, the
\* margin, and the selection emptied.
create_grid(available) ==
    LET pbs_values == {c[1] : c \in Range(available)}
        rtt_values == {c[2] : c \in Range(available)}
        num_rows == Largest(rtt_values) - Smallest(rtt_values) + 1
        num_cols == Largest(pbs_values) - Smallest(pbs_values) + 1
    IN  [grid |-> Some([min_pbs |-> Smallest(pbs_values),
                        max_pbs |-> Largest(pbs_values),
                        min_rtt |-> Smallest(rtt_values),
                        max_rtt |-> Largest(rtt_values),
                        num_rows |-> num_rows, num_cols |-> num_cols,
                        cell_size |-> [num |-> 360,
                                       den |-> IF num_rows >= num_cols
                                               THEN num_rows ELSE num_cols],
                        margin |-> 30]),
         selected_cells |-> {}]

\* Lines 142-193: the run dropdown; load_pbs_rtt_combinations returns at
\* line 167, before create_grid, when the run has no data point.
on_run_selected ==
    /\ pc = "mainloop"
    /\ \E selection \in 0..(Len(self_runs) - 1) :
          LET run == self_runs[selection + 1][1]
              fetched == PbsRttOfRun(run)
              made == create_grid(fetched)
          IN  /\ selected_run' = Some(run)
              /\ available_pbs_rtt' = fetched
              /\ IF fetched = <<>>
                 THEN /\ status_var' = <<"No PBS/RTT combinations found for this run">>
                      /\ UNCHANGED <<grid, selected_cells>>
                 ELSE /\ grid' = made.grid
                      /\ selected_cells' = made.selected_cells
                      /\ status_var' = <<"Found PBS range", made.grid[1].min_pbs,
                                         made.grid[1].max_pbs, made.grid[1].min_rtt,
                                         made.grid[1].max_rtt>>
    /\ UNCHANGED <<ingestvars, warnings, pc, mainvars, heatvars, experiments,
                   selected_experiment, self_runs, dragging, last_cell>>

\* 'int((event.x - self.margin) // self.cell_size)'
CellIndex(pixel) ==
    ((pixel - grid[1].margin) * grid[1].cell_size.den) \div grid[1].cell_size.num

\* The PBS/RTT combination of a cell (lines 303-304 and 346-347).
PbsRttOfCell(cell) == <<grid[1].min_pbs + cell[2], grid[1].max_rtt - cell[1]>>

\* update_selection (293-315) for an event at (x, y): the selection and
\* last_cell after it.
UpdateSelection(x, y, is_dragging) ==
    LET col == CellIndex(x)
        row == CellIndex(y)
        cell == <<row, col>>
        same == [selected_cells |-> selected_cells, last_cell |-> last_cell]
    IN  IF ~is_dragging THEN same
        ELSE IF ~(0 <= row /\ row < grid[1].num_rows /\ 0 <= col /\ col < grid[1].num_cols)
        THEN same
        ELSE IF PbsRttOfCell(cell) \notin Range(available_pbs_rtt) THEN same
        ELSE IF last_cell = Some(cell) THEN same
        ELSE [selected_cells |-> IF cell \in selected_cells
                                 THEN selected_cells \ {cell}
                                 ELSE selected_cells \cup {cell},
              last_cell |-> Some(cell)]

\* <Button-1> on the canvas.
start_selection ==
    /\ pc = "mainloop"
    /\ grid # None
    /\ dragging' = TRUE
    /\ \E x \in Pixels, y \in Pixels :
          /\ selected_cells' = UpdateSelection(x, y, TRUE).selected_cells
          /\ last_cell' = UpdateSelection(x, y, TRUE).last_cell
    /\ UNCHANGED <<ingestvars, warnings, pc, mainvars, heatvars, experiments,
                   selected_experiment, self_runs, selected_run, available_pbs_rtt,
                   grid, status_var>>

\* <B1-Motion> on the canvas.
update_selection ==
    /\ pc = "mainloop"
    /\ grid # None
    /\ \E x \in Pixels, y \in Pixels :
          /\ selected_cells' = UpdateSelection(x, y, dragging).selected_cells
          /\ last_cell' = UpdateSelection(x, y, dragging).last_cell
    /\ UNCHANGED <<ingestvars, warnings, pc, mainvars, heatvars, experiments,
                   selected_experiment, self_runs, selected_run, available_pbs_rtt,
                   grid, dragging, status_var>>

\* <ButtonRelease-1> on the canvas.
end_selection ==
    /\ pc = "mainloop"
    /\ grid # None
    /\ dragging' = FALSE
    /\ last_cell' = None
    /\ UNCHANGED <<ingestvars, warnings, pc, mainvars, heatvars, experiments,
                   selected_experiment, self_runs, selected_run, available_pbs_rtt,
                   grid, selected_cells, status_var>>

\* The "Clear Selection" button, enabled at line 187 with the first grid.
clear_selection ==
    /\ pc = "mainloop"
    /\ grid # None
    /\ selected_cells' = {}
    /\ status_var' = <<"Selection cleared">>
    /\ UNCHANGED <<ingestvars, warnings, pc, mainvars, heatvars, experiments,
                   selected_experiment, self_runs, selected_run, available_pbs_rtt,
                   grid, dragging, last_cell>>

\* The rows read for the plots: 'WHERE dp.run_id = ? AND (ee.pbs, ee.rtt)
\* IN (...)' with the combinations of the selected cells.
PlotRows ==
    {d \in Range(conn.data_points) :
        /\ d.run_id = selected_run[1]
        /\ <<EntryOf(d).pbs, EntryOf(d).rtt>>
               \in {PbsRttOfCell(cell) : cell \in selected_cells}}

\* The "Generate Plots" button, enabled at line 186 with the first grid.
generate_plots ==
    /\ pc = "mainloop"
    /\ grid # None
    /\ status_var' =
           IF selected_cells = {} THEN <<"No cells selected">>
           ELSE IF PlotRows = {} THEN <<"No data found for the selected combinations">>
           ELSE <<"Plots generated successfully">>
    /\ UNCHANGED <<ingestvars, warnings, pc, mainvars, heatvars, experiments,
                   selected_experiment, self_runs, selected_run, available_pbs_rtt,
                   grid, selected_cells, dragging, last_cell>>

NextVisualizer ==
    \/ on_experiment_selected
    \/ on_run_selected
    \/ start_selection
    \/ update_selection
    \/ end_selection
    \/ clear_selection
    \/ generate_plots

SpecVisualizer == InitVisualizer /\ [][NextVisualizer]_vars

(***************************************************************************)
(* The selection of the visualizer (SpecVisualizer).                       *)
(***************************************************************************)
HasData(run, pbs_rtt) ==
    \E d \in Range(conn.data_points) :
        d.run_id = run /\ <<EntryOf(d).pbs, EntryOf(d).rtt>> = pbs_rtt

\* C30: every selected cell is the cell of a PBS/RTT combination that has
\* a data point in the currently selected run.
C30_SelectionHasData ==
    \A cell \in selected_cells :
        /\ selected_run # None
        /\ HasData(selected_run[1], PbsRttOfCell(cell))

====
